---- MODULE Spec2Model ----
(***************************************************************************)
(* Model of the per-sender WhatsApp session manager of the wedding-invite  *)
(* app: server/services/whatsapp.js (the current version of the module,    *)
(* lines 486-1256) and the admin routes that drive it                      *)
(* (server/routes/admin.js, lines 1-484).                                  *)
(*                                                                         *)
(* Node runs one thread: every action below is one run-to-completion       *)
(* segment of a function or event handler, i.e. the code between two       *)
(* awaits.  Objects are modelled by identity: `clients` and `statusHeap`   *)
(* are heaps indexed in creation order, the two Maps hold indices (0 is    *)
(* "no entry").  Timer durations other than the polling of waitForReady    *)
(* are abstracted to "some time later".                                    *)
(***************************************************************************)
EXTENDS Integers, Sequences, FiniteSets, TLC

VARIABLES
  whatsappClients,  \* Map sender -> client            (whatsapp.js:493)
  clientStatus,     \* Map sender -> status object     (whatsapp.js:494)
  statusHeap,       \* the status objects {isReady, qrCodeResolve, qrCode}
  clients,          \* every Client constructed so far, with its closure
                    \* (qrIssued records that it has emitted qr)
  calls,            \* every initializeWhatsApp / waitForReady / clear-session call
  sessionDir,       \* sender -> the credential directory exists on disk
  sweep,            \* the cleanupInactiveClients run in progress
  budget,           \* what the environment may do in this run (fixed by Init)
  batch,            \* the POST /send-invitations request in progress
  phone,            \* a call of formatPhoneNumber: its argument and result
  request           \* the admin request or store read in progress, or the last one

vars == <<whatsappClients, clientStatus, statusHeap, clients, calls,
          sessionDir, sweep, budget, batch, phone, request>>

----------------------------------------------------------------------------
(* Bounds of the exploration *)

MaxClients == 2       \* Client constructions in one run
MaxCalls == 2         \* calls started in one run
MaxInitFailures == 1  \* initialize() failures injected in one run of Spec
MaxSweeps == 1        \* cleanupInactiveClients runs
MaxWaitTicks == 2     \* maxWaitTime of a bounded waitForReady, in 500ms polls

Senders == {"A", "B"}
QRCodes == {"qr1"}
NULL == "null"

(* maxWaitTime: null (wait indefinitely), else a number of 500ms polls *)
NoLimit == -1

(* Error classes of a rejected client.initialize(), by the substring tests *)
(* of attemptInitialize.                                                   *)
InitErrors == {"ebusy", "protocol", "ebusy_protocol", "other"}

----------------------------------------------------------------------------
(* Pure reads of the store *)

HasClient(s) == whatsappClients[s] # 0

HasStatus(s) == clientStatus[s] # 0

StatusOf(s) == statusHeap[clientStatus[s]]

getClient(s) == whatsappClients[s]

getQRCode(s) == IF HasStatus(s) THEN StatusOf(s).qrCode ELSE NULL

(* a sender without status is reported ready *)
getStatus_ReadyByDefault(s) ==
  [ready  |-> IF HasStatus(s) THEN StatusOf(s).isReady ELSE TRUE,
   qrCode |-> IF HasStatus(s) THEN StatusOf(s).qrCode ELSE NULL]

getStatus(s) ==
  [ready  |-> IF HasStatus(s) THEN StatusOf(s).isReady ELSE FALSE,
   qrCode |-> IF HasStatus(s) THEN StatusOf(s).qrCode ELSE NULL]

(* status && status.isReady && client && client.info && client.info.wid *)
IsReadySession(s) ==
  /\ HasClient(s)
  /\ HasStatus(s)
  /\ StatusOf(s).isReady
  /\ clients[whatsappClients[s]].info

(* A connection whose browser is up: constructed, not destroyed, not        *)
(* disconnected, and initialize() not given up.                             *)
Live(c) ==
  /\ ~clients[c].destroyed
  /\ clients[c].phase # "disconnected"
  /\ clients[c].initPc = "active"

InFlight(i) ==
  calls[i].pc \in {"destroying", "pending", "attached", "check", "sleep", "settle"}

----------------------------------------------------------------------------
(* The exported reads getQRCode and getStatus called on their own, and GET *)
(* /whatsapp-status/:sender, admin.js lines 284-336.  request keeps what   *)
(* was returned.                                                           *)

NoResponse == [status |-> 0, ready |-> FALSE, qrCode |-> NULL]

NoRequest ==
  [op |-> "none", pc |-> "idle", sender |-> NULL, qrCode |-> NULL,
   call |-> 0, response |-> NoResponse]

Reading == request.pc \in {"idle", "returned"}

GetQRCodeCalled(s) ==
  /\ Reading
  /\ request' = [NoRequest EXCEPT !.op = "getQRCode", !.pc = "returned",
                                  !.sender = s, !.qrCode = getQRCode(s)]
  /\ UNCHANGED <<whatsappClients, clientStatus, statusHeap, clients, calls,
                 sessionDir, sweep, budget, batch, phone>>

GetStatusCalled(s) ==
  /\ Reading
  /\ request' = [NoRequest EXCEPT !.op = "getStatus", !.pc = "returned",
                                  !.sender = s,
                                  !.response = [status |-> 0,
                                                ready |-> getStatus(s).ready,
                                                qrCode |-> getStatus(s).qrCode]]
  /\ UNCHANGED <<whatsappClients, clientStatus, statusHeap, clients, calls,
                 sessionDir, sweep, budget, batch, phone>>

(* the route overwrites the stored status object instead of a copy *)
WhatsappStatus_WritesStore(s) ==
  LET c == getClient(s)
      identified == c # 0 /\ clients[c].info
  IN /\ request.pc \in {"idle", "returned"}
     /\ request' = [NoRequest EXCEPT !.op = "whatsapp-status", !.pc = "returned",
                                     !.sender = s,
                                     !.response =
                                        [status |-> 200,
                                         ready |-> identified \/ getStatus(s).ready,
                                         qrCode |-> IF identified THEN NULL
                                                    ELSE getStatus(s).qrCode]]
     /\ statusHeap' = IF identified /\ HasStatus(s)
                      THEN [statusHeap EXCEPT ![clientStatus[s]].isReady = TRUE,
                                              ![clientStatus[s]].qrCode = NULL]
                      ELSE statusHeap
     /\ UNCHANGED <<whatsappClients, clientStatus, clients, calls,
                    sessionDir, sweep, budget, batch, phone>>

(* admin.js lines 287-318: the route takes the object getStatus returned   *)
(* and, when the stored client has its info, overwrites ready and qrCode   *)
(* in that object; the object is the literal built in lines 977-980, so    *)
(* nothing of the store is written.                                        *)
WhatsappStatus(s) ==
  LET status == getStatus(s)
      c == getClient(s)
      final == IF c # 0 /\ clients[c].info
               THEN [ready |-> TRUE, qrCode |-> NULL]
               ELSE status
  IN /\ Reading
     /\ request' = [NoRequest EXCEPT !.op = "whatsapp-status", !.pc = "returned",
                                     !.sender = s,
                                     !.response = [status |-> 200,
                                                   ready |-> final.ready,
                                                   qrCode |-> final.qrCode]]
     /\ UNCHANGED <<whatsappClients, clientStatus, statusHeap, clients, calls,
                    sessionDir, sweep, budget, batch, phone>>

----------------------------------------------------------------------------
(* Settling the promise of a call.  For initializeWhatsApp the call ends;  *)
(* waitForReady continues after `await initializeWhatsApp` (line 924):     *)
(* a resolved promise takes it to the polling loop with startTime = now, a *)
(* rejected one makes it throw.                                            *)

(* the promise is resolved without the client *)
Resolved_NoClient(call, c) ==
  IF call.kind = "wfr"
  THEN [call EXCEPT !.pc = "check", !.client = c, !.sinceLoop = 0]
  ELSE [call EXCEPT !.pc = "resolved"]

Resolved(call, c) ==
  IF call.kind = "wfr"
  THEN [call EXCEPT !.pc = "check", !.client = c, !.sinceLoop = 0]
  ELSE [call EXCEPT !.pc = "resolved", !.client = c]

Rejected(call) ==
  IF call.kind = "wfr"
  THEN [call EXCEPT !.pc = "failed"]
  ELSE [call EXCEPT !.pc = "rejected"]

NewCall(kind, s, max) ==
  [kind |-> kind, sender |-> s, pc |-> "start", client |-> 0,
   max |-> max, sinceCall |-> 0, sinceLoop |-> 0, destroyErr |-> NULL]

NewStatus == [isReady |-> FALSE, qrCodeResolve |-> NULL, qrCode |-> NULL]

NewClient(s, st, owner) ==
  [sender |-> s, status |-> st, owner |-> owner, phase |-> "init",
   info |-> FALSE, destroyed |-> FALSE, readyPending |-> FALSE,
   retryCount |-> 0, initPc |-> "active", initErr |-> NULL,
   qrIssued |-> FALSE, initErrs |-> << >>]

(* client.destroy(): the browser is closed; client.info is left as it is.   *)
Destroy(cl, c) == [cl EXCEPT ![c].destroyed = TRUE]

----------------------------------------------------------------------------
(* initializeWhatsApp, lines 582-895: the executor of the returned promise. *)
(* It runs synchronously: status created or reset, Client constructed and   *)
(* stored, handlers registered, attemptInitialize() started.  `i` is the    *)
(* call, wc/cs are the two maps as the code before it left them.            *)

NewConnection(i, s, wc, cs, cl, callSeq) ==
  LET fresh == cs[s] = 0
      st == IF fresh THEN Len(statusHeap) + 1 ELSE cs[s]
      c == Len(cl) + 1
  IN /\ Len(cl) < budget.clients
     /\ statusHeap' = IF fresh THEN Append(statusHeap, NewStatus)
                       ELSE [statusHeap EXCEPT ![st].isReady = FALSE]
     /\ clientStatus' = [cs EXCEPT ![s] = st]
     /\ clients' = Append(cl, NewClient(s, st, i))
     /\ whatsappClients' = [wc EXCEPT ![s] = c]
     /\ calls' = [callSeq EXCEPT ![i].pc = "pending", ![i].client = c]
     /\ sessionDir' = [sessionDir EXCEPT ![s] = TRUE]
     \* a key added to the Map during a for-of iteration is visited by it
     /\ sweep' = [sweep EXCEPT !.visited = @ \ {s}]

(* initializeWhatsApp, lines 502-580: the part before the promise, up to    *)
(* the first await.  kind is "init" for a direct call and "wfr" when       *)
(* waitForReady makes the call and awaits it (line 924).                   *)
initializeWhatsApp(kind, s, max) ==
  LET i == Len(calls) + 1
      callSeq == Append(calls, NewCall(kind, s, max))
      c == whatsappClients[s]
  IN IF IsReadySession(s)
     THEN \* lines 507-510: already ready, return the stored client
          /\ calls' = [callSeq EXCEPT ![i] = Resolved(@, c)]
          /\ UNCHANGED <<whatsappClients, clientStatus, statusHeap, clients,
                         sessionDir, sweep>>
     ELSE IF HasClient(s) /\ HasStatus(s) /\ StatusOf(s).qrCode # NULL
     THEN \* lines 513-547: attach to the client that shows a QR code
          /\ calls' = IF clients[c].info
                      THEN [callSeq EXCEPT ![i] = Resolved(@, c)]
                      ELSE [callSeq EXCEPT ![i].pc = "attached", ![i].client = c]
          /\ UNCHANGED <<whatsappClients, clientStatus, statusHeap, clients,
                         sessionDir, sweep>>
     ELSE IF HasClient(s)
     THEN \* lines 550-569: destroy the non-ready client, await
          /\ clients' = Destroy(clients, c)
          /\ calls' = [callSeq EXCEPT ![i].pc = "destroying", ![i].client = c]
          /\ UNCHANGED <<whatsappClients, clientStatus, statusHeap,
                         sessionDir, sweep>>
     ELSE \* no client stored: straight to the promise
          NewConnection(i, s, whatsappClients, clientStatus, clients, callSeq)

(* A caller outside the module (POST /init-whatsapp, a script) makes the   *)
(* call.                                                                   *)
InitializeWhatsAppCalled(s) ==
  /\ Len(calls) < budget.calls
  /\ initializeWhatsApp("init", s, NoLimit)
  /\ UNCHANGED <<budget, batch, phone, request>>

(* What `await client.destroy()` can end with: it resolves (NULL) or it     *)
(* rejects with an Error whose message is or is not a 'Protocol error' /    *)
(* 'Target closed' one.                                                     *)
DestroyOutcomes == {NULL, "protocol", "other"}

(* the error of destroy() is thrown on by the catch block *)
Escapes_WhenThrown(err) == err # NULL

(* lines 556-565, 1030-1035, admin.js lines 460-462: the catch block       *)
(* around `await client.destroy()` reads the message of the error and logs *)
(* it; no error leaves it.                                                 *)
Escapes(err) == FALSE

(* lines 570-580 then 582-895: destroy() has settled with err and the       *)
(* cleanup wait is over; an error that left the inner catch would be        *)
(* caught by the outer one (lines 571-576), which waits as well; both       *)
(* entries are deleted and the promise executor runs.                       *)
ReopenAfterDestroy(i, err) ==
  /\ calls[i].kind \in {"init", "wfr"}
  /\ calls[i].pc = "destroying"
  /\ LET s == calls[i].sender
     IN NewConnection(i, s, [whatsappClients EXCEPT ![s] = 0],
                      [clientStatus EXCEPT ![s] = 0], clients,
                      [calls EXCEPT ![i].destroyErr = err])
  /\ UNCHANGED <<budget, batch, phone, request>>

(* lines 518-520: the 5 minute timer of the attach path fires *)
AttachTimeout(i) ==
  /\ calls[i].pc = "attached"
  /\ calls' = [calls EXCEPT ![i] = Rejected(@)]
  /\ UNCHANGED <<whatsappClients, clientStatus, statusHeap, clients,
                 sessionDir, sweep, budget, batch, phone, request>>

----------------------------------------------------------------------------
(* Events of a Client and the handlers initializeWhatsApp registered on it. *)
(* A client emits qr (repeatedly), then authenticated, then ready; or       *)
(* auth_failure instead of authenticated; disconnected at any time.  A      *)
(* destroyed client emits nothing, but a handler already suspended on a     *)
(* timer still resumes.                                                     *)

SettleOwner(callSeq, c, outcome) ==
  LET o == clients[c].owner
  IN IF callSeq[o].pc = "pending" /\ callSeq[o].client = c
     THEN [callSeq EXCEPT ![o] = IF outcome = "resolve" THEN Resolved(@, c)
                                  ELSE Rejected(@)]
     ELSE callSeq

(* The once('ready') / once('auth_failure') handlers of the attach path,    *)
(* lines 530-545.                                                           *)
RECURSIVE SettleAttachedUpTo(_, _, _, _)
SettleAttachedUpTo(callSeq, c, outcome, n) ==
  IF n = 0 THEN callSeq
  ELSE LET prev == SettleAttachedUpTo(callSeq, c, outcome, n - 1)
       IN IF prev[n].pc = "attached" /\ prev[n].client = c
          THEN [prev EXCEPT ![n] = IF outcome = "resolve" THEN Resolved(@, c)
                                   ELSE Rejected(@)]
          ELSE prev

(* the handlers of the attach path are never called *)
SettleAttached_Never(callSeq, c, outcome) == callSeq

SettleAttached(callSeq, c, outcome) ==
  SettleAttachedUpTo(callSeq, c, outcome, Len(callSeq))

(* lines 671-688 *)
qrHandler(c, qr) ==
  /\ Live(c)
  /\ clients[c].phase = "init"
  /\ statusHeap' = [statusHeap EXCEPT ![clients[c].status].qrCode = qr,
                                      ![clients[c].status].isReady = FALSE]
  /\ clientStatus' = [clientStatus EXCEPT ![clients[c].sender] = clients[c].status]
  /\ clients' = [clients EXCEPT ![c].qrIssued = TRUE]
  /\ UNCHANGED <<whatsappClients, calls, sessionDir, sweep, budget, batch, phone, request>>

(* lines 721-727: the handler only logs *)
authenticatedHandler(c) ==
  /\ Live(c)
  /\ clients[c].phase = "init"
  /\ clients' = [clients EXCEPT ![c].phase = "authenticated"]
  /\ UNCHANGED <<whatsappClients, clientStatus, statusHeap, calls,
                 sessionDir, sweep, budget, batch, phone, request>>

(* The client sets its info and emits ready: the handler of lines 691-695   *)
(* runs up to its 3 second timer, the once('ready') handlers of attached    *)
(* callers resolve them.                                                    *)
readyEmitted(c) ==
  /\ Live(c)
  /\ clients[c].phase = "authenticated"
  /\ clients' = [clients EXCEPT ![c].phase = "ready", ![c].info = TRUE,
                                ![c].readyPending = TRUE]
  /\ calls' = SettleAttached(calls, c, "resolve")
  /\ UNCHANGED <<whatsappClients, clientStatus, statusHeap,
                 sessionDir, sweep, budget, batch, phone, request>>

(* the ready handler forgetting to clear the pairing code *)
ReadyStatus_KeepsQRCode(h, cur, own) ==
  [h EXCEPT ![cur].isReady = TRUE, ![own].isReady = TRUE]

ReadyStatus(h, cur, own) ==
  [h EXCEPT ![cur].isReady = TRUE, ![cur].qrCode = NULL, ![cur].qrCodeResolve = NULL,
            ![own].isReady = TRUE, ![own].qrCode = NULL, ![own].qrCodeResolve = NULL]

(* lines 697-717: the ready handler after its 3 second delay *)
readyHandler(c) ==
  LET s == clients[c].sender
      own == clients[c].status
      cur == clientStatus[s]
  IN /\ clients[c].readyPending
     /\ clients' = [clients EXCEPT ![c].readyPending = FALSE]
     /\ IF cur # 0
        THEN /\ statusHeap' = ReadyStatus(statusHeap, cur, own)
             /\ UNCHANGED clientStatus
        ELSE /\ statusHeap' = ReadyStatus(Append(statusHeap, NewStatus),
                                          Len(statusHeap) + 1, own)
             /\ clientStatus' = [clientStatus EXCEPT ![s] = Len(statusHeap) + 1]
     /\ calls' = SettleOwner(calls, c, "resolve")
     /\ UNCHANGED <<whatsappClients, sessionDir, sweep, budget, batch, phone, request>>

(* lines 730-733, and the once('auth_failure') handlers of lines 537-545 *)
authFailureHandler(c) ==
  /\ Live(c)
  /\ clients[c].phase = "init"
  /\ clients' = [clients EXCEPT ![c].phase = "auth_failure"]
  /\ calls' = SettleAttached(SettleOwner(calls, c, "reject"), c, "reject")
  /\ UNCHANGED <<whatsappClients, clientStatus, statusHeap,
                 sessionDir, sweep, budget, batch, phone, request>>

(* lines 750-760 *)
disconnectedHandler(c) ==
  LET s == clients[c].sender
      own == clients[c].status
  IN /\ Live(c)
     /\ clients' = [clients EXCEPT ![c].phase = "disconnected"]
     /\ statusHeap' = [statusHeap EXCEPT ![own].isReady = FALSE,
                                         ![own].qrCode = NULL,
                                         ![own].qrCodeResolve = NULL]
     /\ whatsappClients' = [whatsappClients EXCEPT ![s] = 0]
     /\ clientStatus' = [clientStatus EXCEPT ![s] = 0]
     /\ UNCHANGED <<calls, sessionDir, sweep, budget, batch, phone, request>>

----------------------------------------------------------------------------
(* attemptInitialize, lines 768-854, and its .catch, lines 857-883 *)

isEBUSYError(err) == err \in {"ebusy", "ebusy_protocol"}

isProtocolError(err) == err \in {"protocol", "ebusy_protocol"}

(* every error is retried *)
isRetriableError_Any(err) == TRUE

isRetriableError(err) == isEBUSYError(err) \/ isProtocolError(err)

(* one retry limit for every error class *)
maxRetries_Same(err) == 4

maxRetries(err) == IF isProtocolError(err) THEN 3 ELSE 4

RECURSIVE FailuresUpTo(_)
FailuresUpTo(n) ==
  IF n = 0 THEN 0
  ELSE FailuresUpTo(n - 1) + clients[n].retryCount
       + (IF clients[n].initPc = "active" THEN 0 ELSE 1)

(* client.initialize() rejects with an error of class err: lines 777-853.  *)
(* A retriable error below the retry limit suspends attemptInitialize on   *)
(* its backoff timer; any other error is rethrown and rejects the promise. *)
(* initErrs keeps the errors of the invocations of initialize() so far.    *)
initializeFails(c, err) ==
  /\ clients[c].initPc = "active"
  /\ clients[c].phase = "init"
  /\ FailuresUpTo(Len(clients)) < budget.failures
  /\ IF isRetriableError(err) /\ clients[c].retryCount < maxRetries(err)
     THEN /\ clients' = [clients EXCEPT ![c].initPc = "backoff", ![c].initErr = err,
                                        ![c].initErrs = Append(@, err)]
          /\ UNCHANGED calls
     ELSE /\ clients' = [clients EXCEPT ![c].initPc = "rejected", ![c].initErr = err,
                                        ![c].initErrs = Append(@, err)]
          /\ calls' = SettleOwner(calls, c, "reject")
  /\ UNCHANGED <<whatsappClients, clientStatus, statusHeap,
                 sessionDir, sweep, budget, batch, phone, request>>

(* lines 819-846: the backoff is over; after a protocol error on a retry   *)
(* the client is destroyed first; then initialize() is called again on the *)
(* same Client, which launches its browser anew.                           *)
attemptInitialize(c) ==
  /\ clients[c].initPc = "backoff"
  /\ clients' = [clients EXCEPT ![c].initPc = "active",
                                ![c].retryCount = @ + 1,
                                ![c].destroyed = FALSE]
  /\ UNCHANGED <<whatsappClients, clientStatus, statusHeap, calls,
                 sessionDir, sweep, budget, batch, phone, request>>

----------------------------------------------------------------------------
(* waitForReady, lines 903-949 *)

(* lines 907-924: return the ready client at once, else call               *)
(* initializeWhatsApp and await it.                                        *)
waitForReady(s, max) ==
  IF IsReadySession(s)
  THEN /\ calls' = Append(calls, [NewCall("wfr", s, max) EXCEPT
                                    !.pc = "returned", !.client = whatsappClients[s]])
       /\ UNCHANGED <<whatsappClients, clientStatus, statusHeap, clients,
                      sessionDir, sweep>>
  ELSE initializeWhatsApp("wfr", s, max)

WaitForReadyCalled(s, max) ==
  /\ Len(calls) < budget.calls
  /\ waitForReady(s, max)
  /\ UNCHANGED <<budget, batch, phone, request>>

(* lines 930-946: one turn of the polling loop.  The deadline is measured  *)
(* from startTime, taken after initializeWhatsApp has returned.            *)
waitForReadyCheck(i) ==
  LET call == calls[i]
      s == call.sender
  IN /\ call.pc = "check"
     /\ calls' = [calls EXCEPT ![i].pc =
          IF call.max # NoLimit /\ call.sinceLoop >= call.max THEN "timedout"
          ELSE IF HasStatus(s) /\ StatusOf(s).isReady /\ clients[call.client].info
               THEN "settle"
          ELSE "sleep"]
     /\ UNCHANGED <<whatsappClients, clientStatus, statusHeap, clients,
                    sessionDir, sweep, budget, batch, phone, request>>

(* lines 941-942: the 1 second delay is over, the client is returned *)
waitForReadyReturn(i) ==
  /\ calls[i].pc = "settle"
  /\ calls' = [calls EXCEPT ![i].pc = "returned"]
  /\ UNCHANGED <<whatsappClients, clientStatus, statusHeap, clients,
                 sessionDir, sweep, budget, batch, phone, request>>

(* 500ms pass.  Every sleeping poller is due; the clocks of the bounded    *)
(* waits advance (they stop counting one past the deadline).  A due poll   *)
(* runs before more time passes.                                           *)
Up(n, max) == IF max # NoLimit /\ n <= max THEN n + 1 ELSE n

Ticked(call) ==
  IF ~(call.kind = "wfr" /\ call.pc \in {"destroying", "pending", "attached", "sleep", "settle"})
  THEN call
  ELSE [call EXCEPT !.pc = IF @ = "sleep" THEN "check" ELSE @,
                    !.sinceCall = Up(@, call.max),
                    !.sinceLoop = IF call.pc \in {"sleep", "settle"}
                                  THEN Up(@, call.max) ELSE @]

RECURSIVE TickedUpTo(_, _)
TickedUpTo(callSeq, n) ==
  IF n = 0 THEN callSeq
  ELSE [TickedUpTo(callSeq, n - 1) EXCEPT ![n] = Ticked(@)]

Tick ==
  /\ \A i \in DOMAIN calls : calls[i].pc # "check"
  /\ calls' = TickedUpTo(calls, Len(calls))
  /\ calls' # calls
  /\ UNCHANGED <<whatsappClients, clientStatus, statusHeap, clients,
                 sessionDir, sweep, budget, batch, phone, request>>

----------------------------------------------------------------------------
(* DELETE /clear-session/:sender, admin.js lines 445-482 *)

clearSession(s) ==
  LET c == getClient(s)
      call == NewCall("clear", s, NoLimit)
  IN /\ Len(calls) < budget.calls
     /\ IF sessionDir[s]
        THEN /\ sessionDir' = [sessionDir EXCEPT ![s] = FALSE]
             /\ IF c # 0
                THEN /\ clients' = Destroy(clients, c)
                     /\ calls' = Append(calls, [call EXCEPT !.pc = "destroying",
                                                            !.client = c])
                ELSE /\ calls' = Append(calls, [call EXCEPT !.pc = "done"])
                     /\ UNCHANGED clients
        ELSE /\ calls' = Append(calls, [call EXCEPT !.pc = "done"])
             /\ UNCHANGED <<clients, sessionDir>>
     /\ UNCHANGED <<whatsappClients, clientStatus, statusHeap, sweep, budget, batch, phone, request>>

(* lines 459-468: destroy() has settled with err (an error is logged) and   *)
(* the route responds with success; an error that left the catch block      *)
(* would be answered with 500 (lines 475-480).                              *)
clearSessionRespond(i, err) ==
  /\ calls[i].kind = "clear"
  /\ calls[i].pc = "destroying"
  /\ calls' = [calls EXCEPT ![i].pc = IF Escapes(err) THEN "error" ELSE "done",
                            ![i].destroyErr = err]
  /\ UNCHANGED <<whatsappClients, clientStatus, statusHeap, clients,
                 sessionDir, sweep, budget, batch, phone, request>>

----------------------------------------------------------------------------
(* cleanupOldQRCodes, lines 987-1007.  It is synchronous; sweep.qrCleaned  *)
(* keeps the value it returned.                                            *)

MaxQRSweeps == 1      \* runs of cleanupOldQRCodes

(* a pairing code is cleared whenever there is one *)
ShouldClear_AnyCode(st) == statusHeap[st].qrCode # NULL

(* line 994: status.isReady && status.qrCode *)
ShouldClear(st) == statusHeap[st].isReady /\ statusHeap[st].qrCode # NULL

(* lines 995-996 applied to the status objects in hit *)
RECURSIVE ClearedUpTo(_, _)
ClearedUpTo(hit, n) ==
  IF n = 0 THEN << >>
  ELSE Append(ClearedUpTo(hit, n - 1),
              IF n \in hit
              THEN [statusHeap[n] EXCEPT !.qrCode = NULL, !.qrCodeResolve = NULL]
              ELSE statusHeap[n])

cleanupOldQRCodes ==
  LET hit == {clientStatus[s] : s \in {t \in Senders : HasStatus(t) /\ ShouldClear(clientStatus[t])}}
  IN /\ sweep.qrRuns < MaxQRSweeps
     /\ statusHeap' = ClearedUpTo(hit, Len(statusHeap))
     /\ sweep' = [sweep EXCEPT !.qrRuns = @ + 1, !.qrCleaned = Cardinality(hit)]
     /\ UNCHANGED <<whatsappClients, clientStatus, clients, calls,
                    sessionDir, budget, batch, phone, request>>

(* cleanupInactiveClients, lines 1013-1050.  The for-of loop walks the     *)
(* live Map; the order of the senders is left open.                        *)

(* a client that waits for its pairing code to be scanned counts as       *)
(* inactive too                                                            *)
IsInactive_IgnoresQRCode(c, st) ==
  /\ ~clients[c].info
  /\ \/ st = 0
     \/ ~statusHeap[st].isReady

(* line 1024 *)
IsInactive(c, st) ==
  /\ ~clients[c].info
  /\ \/ st = 0
     \/ (~statusHeap[st].isReady /\ statusHeap[st].qrCode = NULL)

cleanupInactiveClients ==
  /\ sweep.pc = "idle"
  /\ sweep.runs < budget.sweeps
  /\ sweep' = [sweep EXCEPT !.pc = "scan", !.visited = {}, !.cleaned = 0,
                            !.runs = @ + 1]
  /\ UNCHANGED <<whatsappClients, clientStatus, statusHeap, clients, calls,
                 sessionDir, budget, batch, phone, request>>

(* lines 1016-1028: the next entry; an inactive client is destroyed and    *)
(* the sweep awaits destroy().                                             *)
cleanupVisit(s) ==
  LET c == whatsappClients[s]
  IN /\ sweep.pc = "scan"
     /\ s \notin sweep.visited
     /\ c # 0
     /\ IF IsInactive(c, clientStatus[s])
        THEN /\ clients' = Destroy(clients, c)
             /\ sweep' = [sweep EXCEPT !.pc = "destroying", !.sender = s,
                                       !.visited = @ \cup {s}]
        ELSE /\ sweep' = [sweep EXCEPT !.visited = @ \cup {s}]
             /\ UNCHANGED clients
     /\ UNCHANGED <<whatsappClients, clientStatus, statusHeap, calls,
                    sessionDir, budget, batch, phone, request>>

(* the entries of every sender are deleted *)
cleanupRemove_EverySender(err) ==
  /\ sweep.pc = "destroying"
  /\ whatsappClients' = [s \in Senders |-> 0]
  /\ clientStatus' = [s \in Senders |-> 0]
  /\ sweep' = [sweep EXCEPT !.pc = "scan", !.cleaned = @ + 1, !.destroyErr = err]
  /\ UNCHANGED <<statusHeap, clients, calls, sessionDir, budget, batch, phone, request>>

(* lines 1029-1038: destroy() has settled with err (an error is logged),   *)
(* both entries of the sender are deleted and the loop goes on.  An error  *)
(* that left the catch block would be caught in line 1040, past the two    *)
(* deletes.                                                                *)
cleanupRemove(err) ==
  /\ sweep.pc = "destroying"
  /\ IF Escapes(err)
     THEN /\ sweep' = [sweep EXCEPT !.pc = "scan", !.destroyErr = err]
          /\ UNCHANGED <<whatsappClients, clientStatus>>
     ELSE /\ whatsappClients' = [whatsappClients EXCEPT ![sweep.sender] = 0]
          /\ clientStatus' = [clientStatus EXCEPT ![sweep.sender] = 0]
          /\ sweep' = [sweep EXCEPT !.pc = "scan", !.cleaned = @ + 1,
                                    !.destroyErr = err]
  /\ UNCHANGED <<statusHeap, clients, calls, sessionDir, budget, batch, phone, request>>

(* lines 1045-1049: no entry is left to visit *)
cleanupReturn ==
  /\ sweep.pc = "scan"
  /\ \A s \in Senders : whatsappClients[s] = 0 \/ s \in sweep.visited
  /\ sweep' = [sweep EXCEPT !.pc = "idle", !.visited = {}, !.cleaned = 0]
  /\ UNCHANGED <<whatsappClients, clientStatus, statusHeap, clients, calls,
                 sessionDir, budget, batch, phone, request>>

----------------------------------------------------------------------------
(* formatPhoneNumber, whatsapp.js lines 1058-1077.  A string is the        *)
(* sequence of its characters.                                             *)

Digits == {"0", "1", "2", "3", "4", "5", "6", "7", "8", "9"}

(* line 1060: phone.replace(/[^\d+]/g, '') *)
IsKept(ch) == ch \in Digits \/ ch = "+"

removeOthers(str) == SelectSeq(str, IsKept)

startsWith(str, prefix) ==
  Len(str) >= Len(prefix) /\ SubSeq(str, 1, Len(prefix)) = prefix

(* String.prototype.substring(1) *)
substring1(str) == SubSeq(str, 2, Len(str))

(* line 1074: cleaned.replace(/^\+/, '') *)
removeLeadingPlus(str) ==
  IF startsWith(str, <<"+">>) THEN substring1(str) ELSE str

(* lines 1064-1071 *)
rewrite(cleaned) ==
  IF startsWith(cleaned, <<"0">>)
  THEN <<"9", "7", "2">> \o substring1(cleaned)
  ELSE IF startsWith(cleaned, <<"+", "9", "7", "2">>)
  THEN substring1(cleaned)
  ELSE IF ~startsWith(cleaned, <<"9", "7", "2">>) /\ Len(cleaned) = 9
  THEN <<"9", "7", "2">> \o cleaned
  ELSE cleaned

(* the country code is not put in front *)
formatPhoneNumber_NoRewrite(str) == removeLeadingPlus(removeOthers(str))

formatPhoneNumber(str) == removeLeadingPlus(rewrite(removeOthers(str)))

----------------------------------------------------------------------------
(* POST /send-invitations, admin.js lines 342-439, with                    *)
(* sendWhatsAppInvitation, whatsapp.js lines 1087-1196, which it awaits    *)
(* for every guest.                                                        *)

MaxGuests == 2        \* length of the guest list of a request
MaxBatchClients == 3  \* Client constructions in one run of SpecBatch

(* A phone that is a string with a lone surrogate: encodeURIComponent      *)
(* throws URIError on it (admin.js line 385).                              *)
MALFORMED == "\\uD800"

(* The elements a guests array can hold: objects with a phone, without a   *)
(* phone, with a malformed phone, and null (the route checks only          *)
(* Array.isArray(guests), line 347).                                       *)
NullGuest == [name |-> NULL, phone |-> NULL, isNull |-> TRUE]

Guests ==
  { [name |-> "Dana", phone |-> "0501234567", isNull |-> FALSE],
    [name |-> "Noa", phone |-> NULL, isNull |-> FALSE],
    [name |-> "Avi", phone |-> MALFORMED, isNull |-> FALSE],
    NullGuest }

RECURSIVE GuestListsUpTo(_)
GuestListsUpTo(n) ==
  IF n = 0 THEN {<< >>}
  ELSE LET shorter == GuestListsUpTo(n - 1)
       IN shorter \cup {Append(q, g) : q \in {r \in shorter : Len(r) = n - 1},
                                       g \in Guests}

(* What an attempt of sendWhatsAppInvitation can end with: the send is     *)
(* accepted, sendMessage returns no id, or an error is thrown whose        *)
(* message is or is not one of the transient ones (line 1179).             *)
SendOutcomes == {"accepted", "noId", "transient", "other"}

retries == 3

(* every error is taken for a transient one *)
IsTransient_Always(err) == err = err

(* line 1179: the message contains 'Evaluation failed', 'Protocol error'   *)
(* or 'not registered'                                                     *)
IsTransient(err) == err = "transient"

(* lines 403-407 and 417-422: the entry pushed to results.details *)
DetailEntry(guest, success, err) ==
  [name |-> guest.name, phone |-> guest.phone, success |-> success, error |-> err]

(* the entry put in front of results.details instead of pushed *)
Record_Unshift(b, success, err) ==
  [b EXCEPT !.successful = IF success THEN @ + 1 ELSE @,
            !.failed = IF success THEN @ ELSE @ + 1,
            !.details = <<DetailEntry(b.guests[b.i], success, err)>> \o @]

(* a failure is counted, but its entry is not pushed *)
Record_FailureNotPushed(b, success, err) ==
  [b EXCEPT !.successful = IF success THEN @ + 1 ELSE @,
            !.failed = IF success THEN @ ELSE @ + 1,
            !.details = IF success THEN Append(@, DetailEntry(b.guests[b.i], success, err))
                        ELSE @]

(* lines 397-407 / 416-422: count the result and push the entry *)
Record(b, success, err) ==
  [b EXCEPT !.successful = IF success THEN @ + 1 ELSE @,
            !.failed = IF success THEN @ ELSE @ + 1,
            !.details = Append(@, DetailEntry(b.guests[b.i], success, err))]

(* line 381: i++ *)
NextGuest(i) == i + 1

(* lines 426-431: the loop is over, the aggregated result is the response *)
Respond(b) ==
  [b EXCEPT !.pc = "responded",
            !.response = [status |-> 200, total |-> Len(b.guests),
                          successful |-> b.successful, failed |-> b.failed]]

(* lines 432-438: an exception has left the loop, the answer is 500 *)
RespondError(b) ==
  [b EXCEPT !.pc = "responded", !.response = [status |-> 500]]

(* lines 381-386 and 414-423: enter the loop body for guest b.i.  A guest  *)
(* whose phone makes encodeURIComponent throw is recorded as failed by the *)
(* catch block, which does not wait, and the loop goes on at once; for any *)
(* other guest sendWhatsAppInvitation is called (pc "enter").  For a null  *)
(* guest `guest.name` throws in line 384 and again in line 415 of the      *)
(* catch block, so the TypeError leaves the loop.                          *)
RECURSIVE LoopFrom(_)
LoopFrom(b) ==
  IF b.i > Len(b.guests) THEN Respond(b)
  ELSE IF b.guests[b.i].isNull THEN RespondError(b)
  ELSE IF b.guests[b.i].phone = MALFORMED
       THEN LoopFrom([Record(b, FALSE, "URIError") EXCEPT !.i = NextGuest(b.i)])
       ELSE [b EXCEPT !.pc = "enter", !.attempt = 1]

(* line 1092: an attempt begins with `await waitForReady(senderName)`.     *)
(* b is the request as the code before left it; when it is in the loop     *)
(* body (pc "enter") the attempt starts, else nothing more happens.        *)
BeginAttempt(b) ==
  IF b.pc = "enter"
  THEN /\ waitForReady(b.sender, NoLimit)
       /\ batch' = [b EXCEPT !.pc = "attemptWait", !.call = Len(calls) + 1,
                             !.reg = NULL, !.ver = NULL]
  ELSE /\ batch' = b
       /\ UNCHANGED <<whatsappClients, clientStatus, statusHeap, clients,
                      calls, sessionDir, sweep>>

(* the attempt is over: what it ended with, and what the registration      *)
(* check and the chat-history verification gave if they were made          *)
Logged(b, outcome) ==
  [b EXCEPT !.log = Append(@, [guest |-> b.i, attempt |-> b.attempt,
                               recorded |-> Len(b.details), outcome |-> outcome,
                               reg |-> b.reg, ver |-> b.ver])]

(* the result is recorded, but a failed send ends the request *)
AfterResult_AbortOnFailure(b, success, err) ==
  LET r == Record(b, success, err)
  IN IF success /\ b.i < Len(b.guests)
     THEN [r EXCEPT !.pc = "delay", !.delays = @ + 1]
     ELSE Respond([r EXCEPT !.i = NextGuest(b.i)])

(* lines 395-413: sendWhatsAppInvitation has returned its result; it is    *)
(* counted and pushed, and the route waits 3 seconds unless this was the   *)
(* last guest.                                                             *)
AfterResult(b, success, err) ==
  LET r == Record(b, success, err)
  IN IF b.i < Len(b.guests)
     THEN [r EXCEPT !.pc = "delay", !.delays = @ + 1]
     ELSE Respond([r EXCEPT !.i = NextGuest(b.i)])

(* lines 1168-1195: the attempt has thrown err.  A transient error below   *)
(* the attempt limit waits 5 seconds and tries again; any other ends the   *)
(* loop and the failure result is returned.                                *)
AttemptThrew(b, err) ==
  IF IsTransient(err) /\ b.attempt < retries
  THEN [Logged(b, err) EXCEPT !.pc = "backoff"]
  ELSE AfterResult(Logged(b, err), FALSE, err)

NewBatch(s, guests) ==
  [pc |-> "waitReady", sender |-> s, guests |-> guests, i |-> 1, attempt |-> 0,
   call |-> 0, details |-> << >>, successful |-> 0, failed |-> 0,
   log |-> << >>, delays |-> 0, ready |-> FALSE, isArray |-> TRUE,
   sent |-> << >>, awaited |-> << >>, reg |-> NULL, ver |-> NULL,
   response |-> [status |-> 0]]

(* the guests array is not looked at *)
IsBadBatchRequest_SenderOnly(s, isArray) == s = NULL

(* line 347: !sender || !guests || !Array.isArray(guests) *)
IsBadBatchRequest(s, isArray) == s = NULL \/ ~isArray

(* lines 342-357: the request arrives.  Without a sender or a guests array *)
(* it is answered with 400; else the route awaits waitForReady(sender,     *)
(* null).                                                                  *)
SendInvitations(s, guests, isArray) ==
  /\ batch.pc = "idle"
  /\ IF IsBadBatchRequest(s, isArray)
     THEN /\ batch' = [NewBatch(s, << >>) EXCEPT !.pc = "responded",
                                                 !.isArray = isArray,
                                                 !.response = [status |-> 400]]
          /\ UNCHANGED <<whatsappClients, clientStatus, statusHeap, clients,
                         calls, sessionDir, sweep>>
     ELSE /\ waitForReady(s, NoLimit)
          /\ batch' = [NewBatch(s, guests) EXCEPT !.call = Len(calls) + 1,
                                                  !.isArray = isArray]
  /\ UNCHANGED <<budget, phone, request>>

(* lines 357-393: waitForReady has settled.  If it threw, the request is   *)
(* answered with 500 (lines 432-438); else the loop starts.                *)
SendInvitationsReady ==
  /\ batch.pc = "waitReady"
  /\ calls[batch.call].pc \in {"returned", "failed", "timedout"}
  /\ IF calls[batch.call].pc = "returned"
     THEN BeginAttempt(LoopFrom([batch EXCEPT !.ready = TRUE]))
     ELSE /\ batch' = RespondError(batch)
          /\ UNCHANGED <<whatsappClients, clientStatus, statusHeap, clients,
                         calls, sessionDir, sweep>>
  /\ UNCHANGED <<budget, phone, request>>

(* The error classes a rejected waitForReady can carry: the error of a     *)
(* failed initialize() may be a 'Protocol error', the others (auth         *)
(* failure, attach timeout) are not transient.                             *)
RejectionClasses(i) ==
  LET c == calls[i].client
  IN IF c # 0 /\ clients[c].owner = i /\ clients[c].initPc = "rejected"
        /\ isProtocolError(clients[c].initErr)
     THEN {"transient", "other"}
     ELSE {"other"}

(* the characters of the phone strings of Guests *)
CharsOf(str) ==
  IF str = "0501234567"
  THEN <<"0", "5", "0", "1", "2", "3", "4", "5", "6", "7">>
  ELSE << >>

(* lines 1100-1106: phoneNumber = formatPhoneNumber(to),                   *)
(* chatId = `${phoneNumber}@c.us`                                          *)
chatId(to) == formatPhoneNumber(CharsOf(to)) \o <<"@", "c", ".", "u", "s">>

(* lines 1092-1114: waitForReady of the attempt has settled.  A returned   *)
(* client is checked for its info, then formatPhoneNumber(to) is called,   *)
(* which throws a TypeError on a missing phone; then, after the 1 second   *)
(* of a first attempt, client.isRegisteredUser(chatId) is awaited (pc      *)
(* "registering").                                                         *)
AttemptReady ==
  /\ batch.pc = "attemptWait"
  /\ calls[batch.call].pc \in {"returned", "failed", "timedout"}
  /\ IF calls[batch.call].pc = "returned"
     THEN batch' = IF ~clients[calls[batch.call].client].info
                   THEN AttemptThrew(batch, "other")
                   ELSE IF batch.guests[batch.i].phone = NULL
                   THEN AttemptThrew(batch, "TypeError")
                   ELSE [batch EXCEPT !.pc = "registering"]
     ELSE \E err \in RejectionClasses(batch.call) :
            batch' = AttemptThrew(batch, err)
  /\ UNCHANGED <<whatsappClients, clientStatus, statusHeap, clients,
                 calls, sessionDir, sweep, budget, phone, request>>

(* What client.isRegisteredUser and the chat-history verification can end *)
(* with: the number is registered / the message is found ("ok"), it is not *)
(* ("no"), or the call throws an Error ("throws").                         *)
CheckOutcomes == {"ok", "no", "throws"}

(* lines 1117-1133: isRegisteredUser has settled with reg; a negative      *)
(* answer is a warning and an error is caught and logged; sendMessage is   *)
(* called (pc "sending").  batch.sent keeps the chat ids client.sendMessage *)
(* was called with.                                                        *)
RegistrationChecked(reg) ==
  /\ batch.pc = "registering"
  /\ batch' = [batch EXCEPT !.pc = "sending", !.reg = reg,
                            !.sent = Append(@, chatId(batch.guests[batch.i].phone))]
  /\ UNCHANGED <<whatsappClients, clientStatus, statusHeap, clients,
                 calls, sessionDir, sweep, budget, phone, request>>

(* lines 1133-1142: client.sendMessage settles.  An accepted message is    *)
(* followed by a 3 second wait and the check of the chat history (pc       *)
(* "verifying"); a result without id and a thrown error go to the catch.   *)
SendSettles(outcome) ==
  /\ batch.pc = "sending"
  /\ batch' = IF outcome = "accepted"
              THEN [batch EXCEPT !.pc = "verifying"]
              ELSE AttemptThrew(batch, outcome)
  /\ UNCHANGED <<whatsappClients, clientStatus, statusHeap, clients,
                 calls, sessionDir, sweep, budget, phone, request>>

(* an error of the verification leaves the attempt like a transient one *)
Verified_ThrowRetries(b, ver) ==
  IF ver = "throws" THEN AttemptThrew([b EXCEPT !.ver = ver], "transient")
  ELSE AfterResult(Logged([b EXCEPT !.ver = ver], "accepted"), TRUE, NULL)

(* lines 1146-1167: found or not is only logged, an error of getChatById   *)
(* or fetchMessages is caught and logged; {success: true, ...} is returned *)
Verified(b, ver) == AfterResult(Logged([b EXCEPT !.ver = ver], "accepted"), TRUE, NULL)

(* lines 1144-1167: the verification is over with ver, the success result  *)
(* is returned to the route.                                               *)
SendVerified(ver) ==
  /\ batch.pc = "verifying"
  /\ batch' = Verified(batch, ver)
  /\ UNCHANGED <<whatsappClients, clientStatus, statusHeap, clients,
                 calls, sessionDir, sweep, budget, phone, request>>

(* lines 1180-1183 then 1090-1092: the 5 seconds are over, next attempt *)
RetryAfterBackoff ==
  /\ batch.pc = "backoff"
  /\ BeginAttempt([batch EXCEPT !.pc = "enter", !.attempt = @ + 1])
  /\ UNCHANGED <<budget, phone, request>>

(* lines 410-413 then 381: the 3 seconds are over, next guest *)
NextAfterDelay ==
  /\ batch.pc = "delay"
  /\ BeginAttempt(LoopFrom([batch EXCEPT !.i = NextGuest(@)]))
  /\ UNCHANGED <<budget, phone, request>>

----------------------------------------------------------------------------
(* sendBulkInvitations, whatsapp.js lines 1206-1255.  It awaits            *)
(* waitForReady() and, for every guest with a phone,                       *)
(* sendWhatsAppInvitation, which returns a result and never throws; both   *)
(* are taken here by their outcome.  The elements of a guest list are      *)
(* references: equal elements are the same object.                         *)

delayMs == 3000

(* Array.prototype.indexOf: the first position that holds g (from 1) *)
indexOf(guests, g) ==
  CHOOSE p \in DOMAIN guests :
    guests[p] = g /\ \A q \in 1..(p - 1) : guests[q] # g

(* line 1249: delayMs > 0 && guests.indexOf(guest) < guests.length - 1 *)
DelayFollows(guests, guest) ==
  delayMs > 0 /\ indexOf(guests, guest) - 1 < Len(guests) - 1

(* lines 1217-1227: the loop reaches guest b.i.  A guest without phone is  *)
(* recorded as failed and the loop continues at once; for a null guest     *)
(* `guest.phoneTo` throws and the function rejects; for any other guest    *)
(* sendWhatsAppInvitation is called.  After the last guest the results are *)
(* returned (line 1254).                                                   *)
(* The phoneFrom of the guests of a bulk call: Dana's row names another    *)
(* sender, the other guests have none (undefined).                         *)
phoneFrom(guest) == IF guest.name = "Dana" THEN "B" ELSE NULL

(* lines 1087 and 903: the senderName parameter of sendWhatsAppInvitation  *)
(* is handed to waitForReady(senderName = 'default'), where an undefined   *)
(* argument takes the default.                                             *)
senderName(arg) == IF arg = NULL THEN "default" ELSE arg

(* batch.awaited keeps the senders waitForReady was called for: the one of *)
(* line 1215 and the one of line 1092 in every sendWhatsAppInvitation      *)
(* call, whose second argument is guest.phoneFrom (line 1231).             *)
RECURSIVE BulkLoopFrom(_)
BulkLoopFrom(b) ==
  IF b.i > Len(b.guests) THEN [b EXCEPT !.pc = "bulkReturned"]
  ELSE IF b.guests[b.i].isNull THEN [b EXCEPT !.pc = "bulkRejected"]
  ELSE IF b.guests[b.i].phone = NULL
       THEN BulkLoopFrom([Record(b, FALSE, "Missing phone number")
                            EXCEPT !.i = NextGuest(b.i)])
       ELSE [b EXCEPT !.pc = "bulkSend",
                      !.awaited = Append(@, senderName(phoneFrom(b.guests[b.i])))]

(* lines 1206-1215: the call, up to `await waitForReady()` *)
SendBulkInvitations(guests) ==
  /\ batch.pc = "idle"
  /\ batch' = [NewBatch("default", guests) EXCEPT !.pc = "bulkWait",
                                                   !.awaited = <<senderName(NULL)>>]
  /\ UNCHANGED <<whatsappClients, clientStatus, statusHeap, clients,
                 calls, sessionDir, sweep, budget, phone, request>>

(* line 1215 settles: waitForReady() returned the client or threw *)
BulkReady(ok) ==
  /\ batch.pc = "bulkWait"
  /\ batch' = IF ok THEN BulkLoopFrom([batch EXCEPT !.ready = TRUE])
                    ELSE [batch EXCEPT !.pc = "bulkRejected"]
  /\ UNCHANGED <<whatsappClients, clientStatus, statusHeap, clients,
                 calls, sessionDir, sweep, budget, phone, request>>

(* lines 1229-1252: sendWhatsAppInvitation has returned its result; it is  *)
(* counted and pushed, then the delay is started or the loop goes on.      *)
BulkSendReturns(success) ==
  /\ batch.pc = "bulkSend"
  /\ LET r == Record(batch, success, IF success THEN NULL ELSE "other")
     IN batch' = IF DelayFollows(batch.guests, batch.guests[batch.i])
                 THEN [r EXCEPT !.pc = "bulkDelay", !.delays = @ + 1]
                 ELSE BulkLoopFrom([r EXCEPT !.i = NextGuest(batch.i)])
  /\ UNCHANGED <<whatsappClients, clientStatus, statusHeap, clients,
                 calls, sessionDir, sweep, budget, phone, request>>

(* line 1250: the delay is over, next guest *)
BulkDelayOver ==
  /\ batch.pc = "bulkDelay"
  /\ batch' = BulkLoopFrom([batch EXCEPT !.i = NextGuest(@)])
  /\ UNCHANGED <<whatsappClients, clientStatus, statusHeap, clients,
                 calls, sessionDir, sweep, budget, phone, request>>

----------------------------------------------------------------------------
(* formatPhoneNumber called on its own, and on its own result *)

NoPhone == [pc |-> "idle", to |-> << >>, formatted |-> << >>, again |-> << >>]

(* sendWhatsAppInvitation line 1100: const phoneNumber = formatPhoneNumber(to) *)
FormatPhoneNumber ==
  /\ phone.pc = "called"
  /\ phone' = [phone EXCEPT !.pc = "formatted",
                            !.formatted = formatPhoneNumber(phone.to)]
  /\ UNCHANGED <<whatsappClients, clientStatus, statusHeap, clients, calls,
                 sessionDir, sweep, budget, batch, request>>

(* the result is given to formatPhoneNumber once more *)
FormatAgain ==
  /\ phone.pc = "formatted"
  /\ phone' = [phone EXCEPT !.pc = "formattedAgain",
                            !.again = formatPhoneNumber(phone.formatted)]
  /\ UNCHANGED <<whatsappClients, clientStatus, statusHeap, clients, calls,
                 sessionDir, sweep, budget, batch, request>>

----------------------------------------------------------------------------
(* POST /init-whatsapp, admin.js lines 123-278.  request is the request in *)
(* progress: its local qrCode, the call whose promise is initPromise, and  *)
(* the response once sent.  initError is set by the catch callback of      *)
(* lines 178-181 as soon as the promise is rejected, so it is read off the *)
(* call.                                                                   *)

RouteAnswer(r, status, ready, qrCode) ==
  [r EXCEPT !.pc = "responded",
            !.response = [status |-> status, ready |-> ready, qrCode |-> qrCode]]

initError(r) == calls[r.call].pc = "rejected"

(* lines 192 and 226-262: the loop condition, and what follows the loop *)
LoopOrAnswer(r, error) ==
  IF r.qrCode = NULL /\ ~error THEN [r EXCEPT !.pc = "sleep"]
  ELSE IF error THEN RouteAnswer(r, 500, FALSE, NULL)
  ELSE RouteAnswer(r, 200, FALSE, r.qrCode)

(* lines 123-193: the request arrives.  Without a sender it is answered    *)
(* with 400; a ready status or a stored code is answered at once; else     *)
(* initializeWhatsApp is called, not awaited, and the loop is entered.     *)
InitWhatsappRequest(s) ==
  LET r == [NoRequest EXCEPT !.op = "init-whatsapp", !.sender = s]
  IN /\ request.pc = "idle"
     /\ IF s = NULL \/ getStatus(s).ready \/ getQRCode(s) # NULL
        THEN /\ request' = IF s = NULL THEN RouteAnswer(r, 400, FALSE, NULL)
                           ELSE IF getStatus(s).ready
                                THEN RouteAnswer(r, 200, TRUE, getStatus(s).qrCode)
                           ELSE RouteAnswer(r, 200, FALSE, getQRCode(s))
             /\ UNCHANGED <<whatsappClients, clientStatus, statusHeap, clients,
                            calls, sessionDir, sweep>>
        ELSE /\ initializeWhatsApp("init", s, NoLimit)
             /\ request' = [r EXCEPT !.pc = "sleep", !.call = Len(calls) + 1]
     /\ UNCHANGED <<budget, batch, phone>>

(* lines 193-214: the 500ms are over.  The code is read again; a ready     *)
(* status is answered; else, if the promise is not known to be rejected,   *)
(* the route awaits the race of lines 216-219.                             *)
InitWhatsappPoll ==
  LET s == request.sender
      r == [request EXCEPT !.qrCode = getQRCode(s)]
  IN /\ request.op = "init-whatsapp"
     /\ request.pc = "sleep"
     /\ request' = IF getStatus(s).ready THEN RouteAnswer(r, 200, TRUE, NULL)
                   ELSE IF ~initError(r) THEN [r EXCEPT !.pc = "race"]
                   ELSE LoopOrAnswer(r, TRUE)
     /\ UNCHANGED <<whatsappClients, clientStatus, statusHeap, clients, calls,
                    sessionDir, sweep, budget, batch, phone>>

(* lines 215-227: the race is over, after 50ms or when the promise has     *)
(* settled; a rejection is taken as initError and the loop condition is    *)
(* evaluated.                                                              *)
InitWhatsappRaceOver ==
  /\ request.op = "init-whatsapp"
  /\ request.pc = "race"
  /\ request' = LoopOrAnswer(request, initError(request))
  /\ UNCHANGED <<whatsappClients, clientStatus, statusHeap, clients, calls,
                 sessionDir, sweep, budget, batch, phone>>

----------------------------------------------------------------------------
(* The session manager on its own *)

NoBatch == [NewBatch(NULL, << >>) EXCEPT !.pc = "idle"]

NoSweep ==
  [pc |-> "idle", visited |-> {}, sender |-> "A", cleaned |-> 0, runs |-> 0,
   qrRuns |-> 0, qrCleaned |-> 0, destroyErr |-> NULL]

(* The module has just been loaded: both Maps are empty *)
EmptyStore ==
  /\ whatsappClients = [s \in Senders |-> 0]
  /\ clientStatus = [s \in Senders |-> 0]
  /\ statusHeap = << >>
  /\ clients = << >>
  /\ calls = << >>
  /\ sessionDir = [s \in Senders |-> FALSE]
  /\ sweep = NoSweep

Init ==
  /\ EmptyStore
  /\ budget = [senders |-> {"A"}, clients |-> MaxClients, calls |-> MaxCalls,
               failures |-> MaxInitFailures, sweeps |-> MaxSweeps,
               waits |-> {NoLimit}, errors |-> {"protocol", "other"},
               destroys |-> {NULL}, checks |-> {"ok"}]
  /\ batch = NoBatch
  /\ phone = NoPhone
  /\ request = NoRequest

Next ==
  \/ \E s \in budget.senders : InitializeWhatsAppCalled(s)
  \/ \E s \in budget.senders, max \in budget.waits : WaitForReadyCalled(s, max)
  \/ \E i \in DOMAIN calls, err \in budget.destroys : ReopenAfterDestroy(i, err)
  \/ \E i \in DOMAIN calls : AttachTimeout(i)
  \/ \E c \in DOMAIN clients, qr \in QRCodes : qrHandler(c, qr)
  \/ \E c \in DOMAIN clients : authenticatedHandler(c)
  \/ \E c \in DOMAIN clients : readyEmitted(c)
  \/ \E c \in DOMAIN clients : readyHandler(c)
  \/ \E c \in DOMAIN clients : authFailureHandler(c)
  \/ \E c \in DOMAIN clients : disconnectedHandler(c)
  \/ \E c \in DOMAIN clients, err \in budget.errors : initializeFails(c, err)
  \/ \E c \in DOMAIN clients : attemptInitialize(c)
  \/ \E i \in DOMAIN calls : waitForReadyCheck(i)
  \/ \E i \in DOMAIN calls : waitForReadyReturn(i)
  \/ Tick
  \/ \E s \in budget.senders : clearSession(s)
  \/ \E i \in DOMAIN calls, err \in budget.destroys : clearSessionRespond(i, err)
  \/ cleanupInactiveClients
  \/ \E s \in Senders : cleanupVisit(s)
  \/ \E err \in budget.destroys : cleanupRemove(err)
  \/ cleanupReturn

Spec == Init /\ [][Next]_vars

----------------------------------------------------------------------------
(* waitForReady with a deadline *)

InitWait ==
  /\ EmptyStore
  /\ budget = [senders |-> {"A"}, clients |-> MaxClients, calls |-> MaxCalls,
               failures |-> 0, sweeps |-> 0,
               waits |-> {MaxWaitTicks}, errors |-> {},
               destroys |-> {NULL}, checks |-> {"ok"}]
  /\ batch = NoBatch
  /\ phone = NoPhone
  /\ request = NoRequest

NextWait ==
  \/ \E s \in budget.senders, max \in budget.waits : WaitForReadyCalled(s, max)
  \/ \E i \in DOMAIN calls, err \in budget.destroys : ReopenAfterDestroy(i, err)
  \/ \E i \in DOMAIN calls : AttachTimeout(i)
  \/ \E c \in DOMAIN clients, qr \in QRCodes : qrHandler(c, qr)
  \/ \E c \in DOMAIN clients : authenticatedHandler(c)
  \/ \E c \in DOMAIN clients : readyEmitted(c)
  \/ \E c \in DOMAIN clients : readyHandler(c)
  \/ \E c \in DOMAIN clients : authFailureHandler(c)
  \/ \E c \in DOMAIN clients : disconnectedHandler(c)
  \/ \E i \in DOMAIN calls : waitForReadyCheck(i)
  \/ \E i \in DOMAIN calls : waitForReadyReturn(i)
  \/ Tick

SpecWait == InitWait /\ [][NextWait]_vars

----------------------------------------------------------------------------
(* One initializeWhatsApp call and the retries of attemptInitialize *)

MaxRetryFailures == 5   \* initialize() failures injected in one run of SpecInit

InitRetry ==
  /\ EmptyStore
  /\ budget = [senders |-> {"A"}, clients |-> 1, calls |-> 1,
               failures |-> MaxRetryFailures, sweeps |-> 0,
               waits |-> {NoLimit}, errors |-> InitErrors,
               destroys |-> {NULL}, checks |-> {"ok"}]
  /\ batch = NoBatch
  /\ phone = NoPhone
  /\ request = NoRequest

NextInit ==
  \/ \E s \in budget.senders : InitializeWhatsAppCalled(s)
  \/ \E c \in DOMAIN clients, err \in budget.errors : initializeFails(c, err)
  \/ \E c \in DOMAIN clients : attemptInitialize(c)
  \/ \E c \in DOMAIN clients, qr \in QRCodes : qrHandler(c, qr)
  \/ \E c \in DOMAIN clients : authenticatedHandler(c)
  \/ \E c \in DOMAIN clients : readyEmitted(c)
  \/ \E c \in DOMAIN clients : readyHandler(c)
  \/ \E c \in DOMAIN clients : authFailureHandler(c)
  \/ \E c \in DOMAIN clients : disconnectedHandler(c)

SpecInit == InitRetry /\ [][NextInit]_vars

----------------------------------------------------------------------------
(* A send-invitations request on top of the session manager *)

InitBatch ==
  /\ EmptyStore
  /\ budget = [senders |-> {"A"}, clients |-> MaxBatchClients, calls |-> 0,
               failures |-> 0, sweeps |-> 0,
               waits |-> {NoLimit}, errors |-> {},
               destroys |-> {NULL}, checks |-> {"ok"}]
  /\ batch = NoBatch
  /\ phone = NoPhone
  /\ request = NoRequest

NextBatch ==
  \/ \E s \in budget.senders \cup {NULL}, guests \in GuestListsUpTo(MaxGuests) :
       SendInvitations(s, guests, TRUE)
  \/ \E s \in budget.senders : SendInvitations(s, << >>, FALSE)
  \/ SendInvitationsReady
  \/ AttemptReady
  \/ \E reg \in budget.checks : RegistrationChecked(reg)
  \/ \E outcome \in SendOutcomes : SendSettles(outcome)
  \/ \E ver \in budget.checks : SendVerified(ver)
  \/ RetryAfterBackoff
  \/ NextAfterDelay
  \/ \E i \in DOMAIN calls, err \in budget.destroys : ReopenAfterDestroy(i, err)
  \/ \E i \in DOMAIN calls : AttachTimeout(i)
  \/ \E c \in DOMAIN clients, qr \in QRCodes : qrHandler(c, qr)
  \/ \E c \in DOMAIN clients : authenticatedHandler(c)
  \/ \E c \in DOMAIN clients : readyEmitted(c)
  \/ \E c \in DOMAIN clients : readyHandler(c)
  \/ \E c \in DOMAIN clients : authFailureHandler(c)
  \/ \E c \in DOMAIN clients : disconnectedHandler(c)
  \/ \E i \in DOMAIN calls : waitForReadyCheck(i)
  \/ \E i \in DOMAIN calls : waitForReadyReturn(i)
  \/ Tick

SpecBatch == InitBatch /\ [][NextBatch]_vars

----------------------------------------------------------------------------
(* A send-invitations request for at most one guest, with every outcome of *)
(* the registration check and of the chat-history verification. With one   *)
(* guest there is no delay between guests, and the request's waits come    *)
(* one after the other, so none attaches to or re-opens a connection.      *)

MaxSendGuests == 1    \* length of the guest list in SpecSend
MaxSendClients == 2   \* Client constructions in one run of SpecSend

InitSend ==
  /\ EmptyStore
  /\ budget = [senders |-> {"A"}, clients |-> MaxSendClients, calls |-> 0,
               failures |-> 0, sweeps |-> 0,
               waits |-> {NoLimit}, errors |-> {},
               destroys |-> {NULL}, checks |-> CheckOutcomes]
  /\ batch = NoBatch
  /\ phone = NoPhone
  /\ request = NoRequest

NextSend ==
  \/ \E s \in budget.senders, guests \in GuestListsUpTo(MaxSendGuests) :
       SendInvitations(s, guests, TRUE)
  \/ SendInvitationsReady
  \/ AttemptReady
  \/ \E reg \in budget.checks : RegistrationChecked(reg)
  \/ \E outcome \in SendOutcomes : SendSettles(outcome)
  \/ \E ver \in budget.checks : SendVerified(ver)
  \/ RetryAfterBackoff
  \/ \E c \in DOMAIN clients, qr \in QRCodes : qrHandler(c, qr)
  \/ \E c \in DOMAIN clients : authenticatedHandler(c)
  \/ \E c \in DOMAIN clients : readyEmitted(c)
  \/ \E c \in DOMAIN clients : readyHandler(c)
  \/ \E c \in DOMAIN clients : authFailureHandler(c)
  \/ \E c \in DOMAIN clients : disconnectedHandler(c)
  \/ \E i \in DOMAIN calls : waitForReadyCheck(i)
  \/ \E i \in DOMAIN calls : waitForReadyReturn(i)
  \/ Tick

SpecSend == InitSend /\ [][NextSend]_vars

(* The same request when every step the program itself schedules is taken: *)
(* a continuation whose awaited promise has settled runs, a timer that was *)
(* set fires (the polling loop of waitForReady, the delays, the ready      *)
(* handler's delay), and every call to the transport (isRegisteredUser,    *)
(* sendMessage, the chat-history fetch) returns or fails.  What the phone  *)
(* and its owner do (a pairing code is scanned, the connection is lost) is *)
(* left open.                                                              *)
FairSend ==
  /\ InitSend
  /\ [][NextSend]_vars
  /\ WF_vars(SendInvitationsReady)
  /\ WF_vars(AttemptReady)
  /\ WF_vars(\E reg \in budget.checks : RegistrationChecked(reg))
  /\ WF_vars(\E outcome \in SendOutcomes : SendSettles(outcome))
  /\ WF_vars(\E ver \in budget.checks : SendVerified(ver))
  /\ WF_vars(RetryAfterBackoff)
  /\ WF_vars(\E c \in DOMAIN clients : readyHandler(c))
  /\ WF_vars(\E i \in DOMAIN calls : waitForReadyCheck(i))
  /\ WF_vars(\E i \in DOMAIN calls : waitForReadyReturn(i))
  /\ WF_vars(Tick)

----------------------------------------------------------------------------
(* One call of sendBulkInvitations *)

InitBulk ==
  /\ EmptyStore
  /\ budget = [senders |-> {}, clients |-> 0, calls |-> 0,
               failures |-> 0, sweeps |-> 0, waits |-> {}, errors |-> {},
               destroys |-> {NULL}, checks |-> {"ok"}]
  /\ batch = NoBatch
  /\ phone = NoPhone
  /\ request = NoRequest

NextBulk ==
  \/ \E guests \in GuestListsUpTo(MaxGuests) : SendBulkInvitations(guests)
  \/ \E ok \in BOOLEAN : BulkReady(ok)
  \/ \E success \in BOOLEAN : BulkSendReturns(success)
  \/ BulkDelayOver

SpecBulk == InitBulk /\ [][NextBulk]_vars

----------------------------------------------------------------------------
(* The two send-batch operations side by side: a send-invitations request  *)
(* with the connection events of its sender, or a sendBulkInvitations call *)

NextTally ==
  \/ NextBatch
  \/ NextBulk

SpecTally == InitBatch /\ [][NextTally]_vars

----------------------------------------------------------------------------
(* The two periodic cleanups of app.js (lines 45-53) over two senders.     *)
(* Here a run of cleanupInactiveClients is not interleaved with any other  *)
(* operation: while it is under way only its own steps are taken.          *)

MaxSweepClients == 3  \* Client constructions in one run of SpecSweep

Quiet == sweep.pc = "idle"

InitSweep ==
  /\ EmptyStore
  /\ budget = [senders |-> Senders, clients |-> MaxSweepClients, calls |-> MaxCalls,
               failures |-> 0, sweeps |-> MaxSweeps,
               waits |-> {NoLimit}, errors |-> {},
               destroys |-> {NULL}, checks |-> {"ok"}]
  /\ batch = NoBatch
  /\ phone = NoPhone
  /\ request = NoRequest

NextSweep ==
  \/ Quiet /\ \E s \in budget.senders : InitializeWhatsAppCalled(s)
  \/ Quiet /\ \E i \in DOMAIN calls, err \in budget.destroys : ReopenAfterDestroy(i, err)
  \/ Quiet /\ \E i \in DOMAIN calls : AttachTimeout(i)
  \/ Quiet /\ \E c \in DOMAIN clients, qr \in QRCodes : qrHandler(c, qr)
  \/ Quiet /\ \E c \in DOMAIN clients : authenticatedHandler(c)
  \/ Quiet /\ \E c \in DOMAIN clients : readyEmitted(c)
  \/ Quiet /\ \E c \in DOMAIN clients : readyHandler(c)
  \/ Quiet /\ \E c \in DOMAIN clients : authFailureHandler(c)
  \/ Quiet /\ \E c \in DOMAIN clients : disconnectedHandler(c)
  \/ Quiet /\ cleanupOldQRCodes
  \/ cleanupInactiveClients
  \/ \E s \in Senders : cleanupVisit(s)
  \/ \E err \in budget.destroys : cleanupRemove(err)
  \/ cleanupReturn

SpecSweep == InitSweep /\ [][NextSweep]_vars

----------------------------------------------------------------------------
(* formatPhoneNumber on its own.  The arguments are a head of up to        *)
(* MaxHeadLen characters, digits, '+' or a separator, followed by up to    *)
(* MaxTailLen times the digit 5, so that the lengths around 9 occur.       *)

MaxHeadLen == 4
MaxTailLen == 9

HeadChars == {"0", "9", "7", "2", "+", "-"}

RECURSIVE StringsUpTo(_)
StringsUpTo(n) ==
  IF n = 0 THEN {<< >>}
  ELSE LET shorter == StringsUpTo(n - 1)
       IN shorter \cup {Append(q, ch) : q \in {r \in shorter : Len(r) = n - 1},
                                        ch \in HeadChars}

RECURSIVE Fives(_)
Fives(n) == IF n = 0 THEN << >> ELSE Append(Fives(n - 1), "5")

PhoneInputs == {h \o Fives(n) : h \in StringsUpTo(MaxHeadLen), n \in 0..MaxTailLen}

InitPhone ==
  /\ EmptyStore
  /\ budget = [senders |-> {}, clients |-> 0, calls |-> 0,
               failures |-> 0, sweeps |-> 0, waits |-> {}, errors |-> {},
               destroys |-> {NULL}, checks |-> {"ok"}]
  /\ batch = NoBatch
  /\ phone \in {[NoPhone EXCEPT !.pc = "called", !.to = x] : x \in PhoneInputs}
  /\ request = NoRequest

NextPhone ==
  \/ FormatPhoneNumber
  \/ FormatAgain

SpecPhone == InitPhone /\ [][NextPhone]_vars

----------------------------------------------------------------------------
(* The reads of the store between the events of two senders' connections *)

MaxReadClients == 2   \* Client constructions in one run of SpecRead

InitRead ==
  /\ EmptyStore
  /\ budget = [senders |-> Senders, clients |-> MaxReadClients, calls |-> MaxCalls,
               failures |-> 0, sweeps |-> 0,
               waits |-> {NoLimit}, errors |-> {},
               destroys |-> {NULL}, checks |-> {"ok"}]
  /\ batch = NoBatch
  /\ phone = NoPhone
  /\ request = NoRequest

NextRead ==
  \/ \E s \in budget.senders : InitializeWhatsAppCalled(s)
  \/ \E i \in DOMAIN calls, err \in budget.destroys : ReopenAfterDestroy(i, err)
  \/ \E i \in DOMAIN calls : AttachTimeout(i)
  \/ \E c \in DOMAIN clients, qr \in QRCodes : qrHandler(c, qr)
  \/ \E c \in DOMAIN clients : authenticatedHandler(c)
  \/ \E c \in DOMAIN clients : readyEmitted(c)
  \/ \E c \in DOMAIN clients : readyHandler(c)
  \/ \E c \in DOMAIN clients : authFailureHandler(c)
  \/ \E c \in DOMAIN clients : disconnectedHandler(c)
  \/ \E s \in Senders : GetQRCodeCalled(s)
  \/ \E s \in Senders : GetStatusCalled(s)
  \/ \E s \in Senders : WhatsappStatus(s)

SpecRead == InitRead /\ [][NextRead]_vars

----------------------------------------------------------------------------
(* The two routes that open a session, with their request validation, over *)
(* a session manager that is also called directly.                        *)

MaxRouteClients == 2  \* Client constructions in one run of SpecRoute
MaxRouteCalls == 2    \* calls, the one of the route included

InitRoute ==
  /\ EmptyStore
  /\ budget = [senders |-> {"A"}, clients |-> MaxRouteClients,
               calls |-> MaxRouteCalls, failures |-> 0, sweeps |-> 0,
               waits |-> {NoLimit}, errors |-> {},
               destroys |-> {NULL}, checks |-> {"ok"}]
  /\ batch = NoBatch
  /\ phone = NoPhone
  /\ request = NoRequest

NextRoute ==
  \/ \E s \in budget.senders \cup {NULL} : InitWhatsappRequest(s)
  \/ InitWhatsappPoll
  \/ InitWhatsappRaceOver
  \/ \E s \in budget.senders \cup {NULL} : SendInvitations(s, << >>, FALSE)
  \/ \E guests \in GuestListsUpTo(1) : SendInvitations(NULL, guests, TRUE)
  \/ \E s \in budget.senders : InitializeWhatsAppCalled(s)
  \/ \E i \in DOMAIN calls, err \in budget.destroys : ReopenAfterDestroy(i, err)
  \/ \E i \in DOMAIN calls : AttachTimeout(i)
  \/ \E c \in DOMAIN clients, qr \in QRCodes : qrHandler(c, qr)
  \/ \E c \in DOMAIN clients : authenticatedHandler(c)
  \/ \E c \in DOMAIN clients : readyEmitted(c)
  \/ \E c \in DOMAIN clients : readyHandler(c)
  \/ \E c \in DOMAIN clients : authFailureHandler(c)
  \/ \E c \in DOMAIN clients : disconnectedHandler(c)

SpecRoute == InitRoute /\ [][NextRoute]_vars

(* The timers of the polling loop fire: the 500ms sleep and the 50ms race  *)
(* always end.  Nothing is assumed of the connection.                      *)
FairRoute ==
  /\ InitRoute /\ [][NextRoute]_vars
  /\ WF_vars(InitWhatsappPoll) /\ WF_vars(InitWhatsappRaceOver)

----------------------------------------------------------------------------
(* Two senders served at once: opens, connection events, clear-session and *)
(* the sweep interleave freely, and destroy() may reject.                  *)

MaxPairClients == 2   \* Client constructions in one run of SpecPair
MaxPairCalls == 2     \* calls started in one run of SpecPair

InitPair ==
  /\ EmptyStore
  /\ budget = [senders |-> Senders, clients |-> MaxPairClients,
               calls |-> MaxPairCalls, failures |-> 0, sweeps |-> MaxSweeps,
               waits |-> {NoLimit}, errors |-> {},
               destroys |-> DestroyOutcomes, checks |-> {"ok"}]
  /\ batch = NoBatch
  /\ phone = NoPhone
  /\ request = NoRequest

NextPair ==
  \/ \E s \in budget.senders : InitializeWhatsAppCalled(s)
  \/ \E i \in DOMAIN calls, err \in budget.destroys : ReopenAfterDestroy(i, err)
  \/ \E i \in DOMAIN calls : AttachTimeout(i)
  \/ \E c \in DOMAIN clients, qr \in QRCodes : qrHandler(c, qr)
  \/ \E c \in DOMAIN clients : authenticatedHandler(c)
  \/ \E c \in DOMAIN clients : readyEmitted(c)
  \/ \E c \in DOMAIN clients : readyHandler(c)
  \/ \E c \in DOMAIN clients : authFailureHandler(c)
  \/ \E c \in DOMAIN clients : disconnectedHandler(c)
  \/ \E s \in budget.senders : clearSession(s)
  \/ \E i \in DOMAIN calls, err \in budget.destroys : clearSessionRespond(i, err)
  \/ cleanupInactiveClients
  \/ \E s \in Senders : cleanupVisit(s)
  \/ \E err \in budget.destroys : cleanupRemove(err)
  \/ cleanupReturn

SpecPair == InitPair /\ [][NextPair]_vars

----------------------------------------------------------------------------
(* Properties of the session manager *)

IsOpen(i) == calls[i].kind \in {"init", "wfr"}

ClientsOf(s) == {c \in DOMAIN clients : clients[c].sender = s}

(* C1: two initializeWhatsApp calls for one sender, the second made while  *)
(* the connection of the first is still on its way to ready, construct one *)
(* Client in total and the second caller waits on the first connection.    *)
C1_OneConnectionForOverlappingOpens ==
  \A i, j \in DOMAIN calls :
    ( /\ i < j
      /\ calls[i].kind = "init" /\ calls[j].kind = "init"
      /\ calls[i].sender = calls[j].sender
      /\ calls[i].pc = "pending"
      /\ clients[calls[i].client].phase \in {"init", "authenticated"}
      /\ clients[calls[i].client].initPc = "active" )
    => /\ calls[j].pc # "destroying"
       /\ calls[j].client = calls[i].client
       /\ \A c \in ClientsOf(calls[i].sender) : c <= calls[i].client

(* C2: every live connection is the one recorded in whatsappClients for    *)
(* its sender, so a sender has at most one live connection.                *)
C2_OneLiveConnectionPerSender ==
  \A c \in DOMAIN clients :
    Live(c) => whatsappClients[clients[c].sender] = c

(* C3: a stored status with isReady = true has qrCode = null.              *)
C3_ReadyImpliesNoQRCode ==
  \A s \in Senders :
    (HasStatus(s) /\ StatusOf(s).isReady) => StatusOf(s).qrCode = NULL

(* a session became ready after its connection had issued a pairing code   *)
C3_Witness ==
  \E s \in Senders :
    /\ IsReadySession(s)
    /\ clients[whatsappClients[s]].qrIssued
    /\ ~clients[whatsappClients[s]].readyPending

(* C5: once a clear-session request for a sender has been answered, the    *)
(* store holds neither client nor status for the sender (until a later     *)
(* initializeWhatsApp), and the open that follows constructs a connection  *)
(* instead of returning the old client.                                    *)
C5_ClearSessionEmptiesStore ==
  \A i \in DOMAIN calls :
    (calls[i].kind = "clear" /\ calls[i].pc = "done") =>
      /\ (\A j \in DOMAIN calls : (j > i /\ IsOpen(j)) => calls[j].sender # calls[i].sender)
           => (~HasClient(calls[i].sender) /\ ~HasStatus(calls[i].sender))
      /\ \A j \in DOMAIN calls :
           ( /\ j > i /\ IsOpen(j) /\ calls[j].sender = calls[i].sender
             /\ \A k \in DOMAIN calls : (i < k /\ k < j) => calls[k].sender # calls[i].sender
             /\ calls[j].client # 0 )
           => clients[calls[j].client].owner = j

(* C7: when the connection stored for a sender emits auth_failure, every   *)
(* initializeWhatsApp / waitForReady call of that sender in flight fails.  *)
C7_AuthFailureFailsAllCallers ==
  [][\A c \in DOMAIN clients :
       ( /\ clients[c].phase = "init"
         /\ clients'[c].phase = "auth_failure"
         /\ whatsappClients[clients[c].sender] = c )
       => \A i \in DOMAIN calls :
            (IsOpen(i) /\ InFlight(i) /\ calls[i].sender = clients[c].sender)
            => calls'[i].pc \in {"rejected", "failed"}]_vars

(* C8: after the disconnected event of a sender's connection, and until an *)
(* initializeWhatsApp constructs the next one, the store holds neither a   *)
(* client nor a status for the sender.                                     *)
C8_DisconnectedStaysRemoved ==
  \A c \in DOMAIN clients :
    ( /\ clients[c].phase = "disconnected"
      /\ \A d \in ClientsOf(clients[c].sender) : d <= c )
    => /\ ~HasClient(clients[c].sender)
       /\ ~HasStatus(clients[c].sender)
       /\ getStatus(clients[c].sender) = [ready |-> FALSE, qrCode |-> NULL]

(* C9: getStatus(s).ready is true only if a client is stored for s and     *)
(* that client has emitted ready (its info is populated).                  *)
C9_ReadyFlagMeansReadyClient ==
  \A s \in Senders :
    getStatus(s).ready => (HasClient(s) /\ clients[whatsappClients[s]].info)

----------------------------------------------------------------------------
(* Properties of waitForReady with a deadline (SpecWait) *)

(* C4: a waitForReady with a deadline, for a sender none of whose          *)
(* connections has become ready, has failed once the deadline is passed.   *)
C4_FailsAtDeadline ==
  \A i \in DOMAIN calls :
    ( /\ calls[i].kind = "wfr"
      /\ calls[i].max # NoLimit
      /\ calls[i].sinceCall > calls[i].max
      /\ \A c \in ClientsOf(calls[i].sender) : ~clients[c].info )
    => calls[i].pc \in {"timedout", "failed"}

----------------------------------------------------------------------------
(* Properties of attemptInitialize (SpecInit) *)

(* C6 as claimed: the first failure of initialize() rejects the promise    *)
(* and initialize() is never called a second time.                         *)
C6_FirstFailureRejects ==
  \A c \in DOMAIN clients :
    /\ clients[c].retryCount = 0
    /\ clients[c].initErr # NULL => clients[c].initPc = "rejected"

(* C6 as amended: a failure that is neither a file-locking nor a protocol  *)
(* error rejects the promise at once; a file-locking error is retried      *)
(* while fewer than 4 retries were made, a protocol error while fewer than *)
(* 3, so initialize() is called at most 5 times for one open call, and the *)
(* failure that ends the retries rejects the promise.                      *)
C6_RetriesBoundedThenRejected ==
  \A c \in DOMAIN clients :
    LET cl == clients[c]
        protocol == cl.initErr \in {"protocol", "ebusy_protocol"}
    IN /\ cl.retryCount <= 4
       /\ cl.initErr = "other" => cl.initPc = "rejected"
       /\ cl.initPc = "backoff" =>
            /\ cl.initErr # "other"
            /\ cl.retryCount < (IF protocol THEN 3 ELSE 4)
       /\ cl.initPc = "rejected" =>
            /\ calls[cl.owner].pc \in {"rejected", "failed"}
            /\ \/ cl.initErr = "other"
               \/ protocol /\ cl.retryCount >= 3
               \/ cl.initErr = "ebusy" /\ cl.retryCount = 4

(* initialize() was retried until the limit and the promise rejected *)
C6_Witness ==
  \E c \in DOMAIN clients :
    /\ clients[c].initPc = "rejected"
    /\ clients[c].retryCount >= 3
    /\ calls[clients[c].owner].pc = "rejected"

----------------------------------------------------------------------------
(* Properties of the send-invitations request (SpecBatch) *)

InAttempt ==
  batch.pc \in {"attemptWait", "registering", "sending", "verifying", "backoff"}

(* C10: the guests are processed in input order and one at a time: every   *)
(* attempt for a guest is made when exactly the guests before it have been *)
(* recorded, the attempts follow the order of the list, and details[k] is  *)
(* the outcome of guests[k].                                               *)
C10_InOrderOneAtATime ==
  /\ \A k \in DOMAIN batch.details :
       /\ k <= Len(batch.guests)
       /\ batch.details[k].name = batch.guests[k].name
       /\ batch.details[k].phone = batch.guests[k].phone
       /\ batch.details[k].success <=>
            \E m \in DOMAIN batch.log :
              batch.log[m].guest = k /\ batch.log[m].outcome = "accepted"
  /\ \A m \in DOMAIN batch.log :
       /\ batch.log[m].recorded = batch.log[m].guest - 1
       /\ m < Len(batch.log) =>
            \/ batch.log[m].guest < batch.log[m + 1].guest
            \/ /\ batch.log[m].guest = batch.log[m + 1].guest
               /\ batch.log[m].attempt + 1 = batch.log[m + 1].attempt
               /\ batch.log[m].outcome # "accepted"
  /\ InAttempt =>
       /\ Len(batch.details) = batch.i - 1
       /\ \A m \in DOMAIN batch.log : batch.log[m].guest <= batch.i
  /\ (batch.pc = "responded" /\ batch.response.status = 200) =>
       Len(batch.details) = Len(batch.guests)

(* a request for two guests or more was answered after an attempt had been *)
(* repeated, with one guest sent and one failed                            *)
C10_Witness ==
  /\ batch.pc = "responded"
  /\ batch.response.status = 200
  /\ Len(batch.guests) >= 2
  /\ Len(batch.log) > Len(batch.guests)
  /\ batch.successful >= 1
  /\ batch.failed >= 1

Answered == batch.pc = "responded" /\ batch.response.status = 200

AttemptsOf(k) == {m \in DOMAIN batch.log : batch.log[m].guest = k}

(* every attempt made for guest k was accepted, and there was one *)
SendAccepted(k) ==
  /\ AttemptsOf(k) # {}
  /\ \A m \in AttemptsOf(k) : batch.log[m].outcome = "accepted"

(* guest k failed with an error that is not transient: on its only attempt *)
(* or, for a malformed phone, before sendWhatsAppInvitation was called     *)
FailsNonTransient(k) ==
  \/ /\ batch.guests[k].phone = MALFORMED
     /\ AttemptsOf(k) = {}
  \/ /\ Cardinality(AttemptsOf(k)) = 1
     /\ \A m \in AttemptsOf(k) : batch.log[m].outcome \in {"other", "noId", "TypeError"}

(* C11: in an answered request for N guests where guest k fails with a     *)
(* non-transient error and every other send is accepted, there are N       *)
(* detail entries, failed = 1 (the entry of guest k), successful = N - 1,  *)
(* and the guests after k were sent.                                       *)
C11_OneFailureDoesNotStopBatch ==
  Answered =>
    \A k \in DOMAIN batch.guests :
      ( /\ FailsNonTransient(k)
        /\ \A j \in DOMAIN batch.guests \ {k} :
             /\ batch.guests[j].phone # MALFORMED
             /\ \A m \in AttemptsOf(j) : batch.log[m].outcome = "accepted" )
      => /\ Len(batch.details) = Len(batch.guests)
         /\ batch.response.failed = 1
         /\ ~batch.details[k].success
         /\ batch.response.successful = Len(batch.guests) - 1
         /\ \A j \in DOMAIN batch.guests \ {k} : SendAccepted(j)

(* the first of two guests failed with a non-transient error and the       *)
(* second was sent                                                         *)
C11_Witness ==
  /\ Answered
  /\ Len(batch.guests) = MaxGuests
  /\ FailsNonTransient(1)
  /\ AttemptsOf(1) # {}
  /\ \A j \in 2..Len(batch.guests) : SendAccepted(j)
  /\ batch.response.failed = 1

(* guest k has its detail entry: sendWhatsAppInvitation has returned *)
Recorded(k) == k <= Len(batch.details)

(* C12: sendWhatsAppInvitation makes at most 3 attempts per guest; an      *)
(* attempt after the first is made only when the one before failed with a  *)
(* transient error; a guest that failed with transient errors only got     *)
(* exactly 3 attempts, a guest whose first error was not transient 1.      *)
C12_AtMostThreeAttemptsTransientOnly ==
  /\ \A m \in DOMAIN batch.log :
       /\ batch.log[m].attempt \in 1..3
       /\ batch.log[m].attempt > 1 =>
            /\ m > 1
            /\ batch.log[m - 1].guest = batch.log[m].guest
            /\ batch.log[m - 1].attempt = batch.log[m].attempt - 1
            /\ batch.log[m - 1].outcome = "transient"
       /\ (m < Len(batch.log) /\ batch.log[m].outcome # "transient") =>
            batch.log[m + 1].guest # batch.log[m].guest
  /\ \A k \in DOMAIN batch.guests :
       /\ Cardinality(AttemptsOf(k)) <= 3
       /\ \A m, n \in AttemptsOf(k) :
            batch.log[m].attempt = batch.log[n].attempt => m = n
       /\ Recorded(k) =>
            /\ ( /\ AttemptsOf(k) # {}
                 /\ \A m \in AttemptsOf(k) : batch.log[m].outcome = "transient" )
               => ( Cardinality(AttemptsOf(k)) = 3 /\ ~batch.details[k].success )
            /\ ( \E m \in AttemptsOf(k) :
                   /\ batch.log[m].attempt = 1
                   /\ batch.log[m].outcome \notin {"transient", "accepted"} )
               => ( Cardinality(AttemptsOf(k)) = 1 /\ ~batch.details[k].success )

(* one guest was given up after three transient errors and another after   *)
(* one error of another kind                                               *)
C12_Witness ==
  /\ \E k \in DOMAIN batch.guests :
       /\ Recorded(k)
       /\ Cardinality(AttemptsOf(k)) = 3
       /\ \A m \in AttemptsOf(k) : batch.log[m].outcome = "transient"
  /\ \E k \in DOMAIN batch.guests :
       /\ Recorded(k)
       /\ Cardinality(AttemptsOf(k)) = 1
       /\ \A m \in AttemptsOf(k) : batch.log[m].outcome = "other"

(* C13: once the initial waitForReady of a send-invitations request has    *)
(* succeeded, the request is answered with the aggregated result: there is *)
(* one detail entry per guest, those of the guests that were not sent have *)
(* success = false, and no guest's error makes the request fail.           *)
C13_GuestErrorsNeverFailBatch ==
  (batch.ready /\ batch.pc = "responded") =>
    /\ batch.response.status = 200
    /\ Len(batch.details) = Len(batch.guests)
    /\ \A k \in DOMAIN batch.guests :
         batch.details[k].success <=>
           \E m \in AttemptsOf(k) : batch.log[m].outcome = "accepted"

----------------------------------------------------------------------------
(* Properties of the inter-message delay (SpecBulk, SpecBatch) *)

Delaying == batch.pc \in {"delay", "bulkDelay"}

Completed == Answered \/ batch.pc = "bulkReturned"

(* C14: the delay is taken once between each pair of consecutive guests    *)
(* and never after the last one: while the batch waits, the guest just     *)
(* recorded is not the last and one delay was taken per guest recorded     *)
(* before; a completed batch of N guests has taken N - 1 delays.           *)
C14_DelayBetweenGuestsOnly ==
  /\ Delaying => ( batch.i < Len(batch.guests) /\ batch.delays = batch.i )
  /\ (Completed /\ Len(batch.guests) > 0) =>
       batch.delays = Len(batch.guests) - 1

----------------------------------------------------------------------------
(* Properties of the periodic cleanups (Spec) *)

HoldsQRCode(s) == HasStatus(s) /\ StatusOf(s).qrCode # NULL

(* C15: when cleanupInactiveClients removes the entries of a sender (after *)
(* the destroy() it awaited), the status stored for the sender holds no    *)
(* pairing code.                                                           *)
C15_SweepSparesPairingSessions ==
  [][(sweep.pc = "destroying" /\ sweep'.pc = "scan")
       => ~HoldsQRCode(sweep.sender)]_vars

NeitherReadyNorPairing(s) ==
  /\ HasClient(s)
  /\ \/ ~HasStatus(s)
     \/ (~StatusOf(s).isReady /\ StatusOf(s).qrCode = NULL)

(* ... and it has not emitted ready either (client.info is not set) *)
Stuck(s) == NeitherReadyNorPairing(s) /\ ~clients[whatsappClients[s]].info

SweepReturns == sweep.pc = "scan" /\ sweep'.pc = "idle"

(* C17 as claimed: when a cleanupInactiveClients run that was not          *)
(* interleaved with anything returns, no sender is left whose connection   *)
(* exists but has neither isReady nor a pairing code.                      *)
C17_NoIdleConnectionLeft ==
  [][SweepReturns => \A s \in Senders : ~NeitherReadyNorPairing(s)']_vars

(* C17 as amended: when such a run returns, no sender is left whose        *)
(* connection exists, has no info, and has neither isReady nor a pairing   *)
(* code; the run destroyed every such connection before it removed its two *)
(* entries, and it left every other session in place.                      *)
C17_NoStuckConnectionLeft ==
  [][/\ SweepReturns => \A s \in Senders : ~Stuck(s)'
     /\ ~Quiet =>
          \A s \in Senders :
            IF Stuck(s)
            THEN \/ /\ whatsappClients'[s] = whatsappClients[s]
                    /\ clientStatus'[s] = clientStatus[s]
                 \/ /\ clients[whatsappClients[s]].destroyed
                    /\ whatsappClients'[s] = 0
                    /\ clientStatus'[s] = 0
            ELSE /\ whatsappClients'[s] = whatsappClients[s]
                 /\ clientStatus'[s] = clientStatus[s]
                 /\ HasClient(s) => clients'[whatsappClients[s]] = clients[whatsappClients[s]]]_vars

(* a run has removed a stuck connection and returned, and left in place a  *)
(* ready session                                                           *)
C17_Witness ==
  /\ Quiet
  /\ sweep.runs > 0
  /\ \E s, t \in Senders :
       /\ IsReadySession(s)
       /\ ~HasClient(t) /\ ~HasStatus(t)
       /\ \E c \in ClientsOf(t) : clients[c].destroyed /\ clients[c].phase = "init"

----------------------------------------------------------------------------
(* Properties of formatPhoneNumber (SpecPhone) *)

Formatted == phone.pc \in {"formatted", "formattedAgain"}

DigitsOnly(str) == \A k \in DOMAIN str : str[k] \in Digits

(* the argument without its separator characters *)
Unseparated == SelectSeq(phone.to, LAMBDA ch : ch # "-")

(* C18: for an argument that starts with '0' once its separators are       *)
(* removed, the result is that string with the leading '0' replaced by     *)
(* '972', and it consists of digits only.                                  *)
C18_TrunkPrefixReplaced ==
  (Formatted /\ startsWith(Unseparated, <<"0">>)) =>
    /\ startsWith(phone.formatted, <<"9", "7", "2">>)
    /\ Len(phone.formatted) = Len(Unseparated) + 2
    /\ DigitsOnly(phone.formatted)

(* C19: formatPhoneNumber(formatPhoneNumber(x)) = formatPhoneNumber(x)     *)
C19_Idempotent ==
  phone.pc = "formattedAgain" => phone.again = phone.formatted

(* the reference of C20: keep the digits and a leading '+' *)
RECURSIVE KeepDigitsAndLeadingPlus(_)
KeepDigitsAndLeadingPlus(str) ==
  IF str = << >> THEN << >>
  ELSE LET front == KeepDigitsAndLeadingPlus(SubSeq(str, 1, Len(str) - 1))
           ch == str[Len(str)]
       IN IF ch \in Digits \/ (ch = "+" /\ front = << >>)
          THEN Append(front, ch)
          ELSE front

(* the reference of C20: the first matching rewrite, then no leading '+'   *)
Reference(str) ==
  LET kept == KeepDigitsAndLeadingPlus(str)
      rewritten ==
        IF kept # << >> /\ kept[1] = "0"
        THEN <<"9", "7", "2">> \o Tail(kept)
        ELSE IF Len(kept) >= 4 /\ SubSeq(kept, 1, 4) = <<"+", "9", "7", "2">>
        THEN Tail(kept)
        ELSE IF /\ Len(kept) = 9
                /\ DigitsOnly(kept)
                /\ SubSeq(kept, 1, 3) # <<"9", "7", "2">>
        THEN <<"9", "7", "2">> \o kept
        ELSE kept
  IN IF rewritten # << >> /\ rewritten[1] = "+" THEN Tail(rewritten) ELSE rewritten

(* C20: formatPhoneNumber returns what the reference returns *)
C20_MatchesReference ==
  Formatted => phone.formatted = Reference(phone.to)

----------------------------------------------------------------------------
(* Properties of the reads (SpecRead) *)

ReadStep == request' # request

StoreUnchanged ==
  /\ whatsappClients' = whatsappClients
  /\ clientStatus' = clientStatus
  /\ statusHeap' = statusHeap
  /\ clients' = clients

(* C21: getQRCode and getStatus return at once and leave the two Maps and  *)
(* the status objects as they are; for a sender without entry they return  *)
(* null and {ready: false, qrCode: null}; what a caller writes into the    *)
(* object getStatus returned (the status route does) is not written to the *)
(* store.                                                                  *)
C21_ReadsLeaveStore ==
  [][ReadStep =>
       LET s == request'.sender
       IN /\ request'.pc = "returned"
          /\ StoreUnchanged
          /\ calls' = calls
          /\ request'.op = "getQRCode" =>
               request'.qrCode = IF HasStatus(s) THEN StatusOf(s).qrCode ELSE NULL
          /\ request'.op = "getStatus" =>
               /\ request'.response.ready = (HasStatus(s) /\ StatusOf(s).isReady)
               /\ request'.response.qrCode =
                    IF HasStatus(s) THEN StatusOf(s).qrCode ELSE NULL
          /\ (request'.op = "whatsapp-status" /\ HasStatus(s)) =>
               statusHeap'[clientStatus[s]] = StatusOf(s)]_vars

(* the status route has answered ready from the copy it overwrote, while   *)
(* the stored status is not ready; the other sender has no entry           *)
C21_Witness ==
  /\ request.op = "whatsapp-status"
  /\ request.response.ready
  /\ HasStatus(request.sender)
  /\ ~StatusOf(request.sender).isReady
  /\ \E t \in Senders : ~HasStatus(t) /\ ~HasClient(t)

----------------------------------------------------------------------------
(* Properties of initializeWhatsApp and waitForReady on a stored session   *)
(* (Spec)                                                                  *)

(* this step is a call of initializeWhatsApp from outside the module *)
InitCallStep ==
  /\ Len(calls') = Len(calls) + 1
  /\ calls'[Len(calls')].kind = "init"

(* C22: initializeWhatsApp for a sender whose status is ready and whose    *)
(* stored client has its info returns the stored client, constructs no     *)
(* Client and leaves the store as it is; for any other sender with a       *)
(* stored client it does not return at once.                               *)
C22_ReadySessionReturned ==
  [][InitCallStep =>
       LET i == Len(calls')
           s == calls'[i].sender
           ready == /\ HasClient(s) /\ HasStatus(s) /\ StatusOf(s).isReady
                    /\ clients[whatsappClients[s]].info
       IN /\ ready =>
               /\ calls'[i].pc = "resolved"
               /\ calls'[i].client = whatsappClients[s]
               /\ StoreUnchanged
               /\ sessionDir' = sessionDir
          /\ (~ready /\ HasClient(s) /\ ~clients[whatsappClients[s]].info) =>
               calls'[i].pc # "resolved"]_vars

(* a call has returned the stored client of a ready session at once *)
C22_Witness ==
  \E i \in DOMAIN calls :
    /\ calls[i].kind = "init"
    /\ calls[i].pc = "resolved"
    /\ calls[i].client # 0
    /\ clients[calls[i].client].owner # i
    /\ IsReadySession(calls[i].sender)
    /\ Len(clients) = 1

AttachedTo(c) == {i \in DOMAIN calls : calls[i].pc = "attached" /\ calls[i].client = c}

C24_WaitForReadyKeepsSession ==
  [][\A i \in DOMAIN calls' :
       calls'[i].kind = "wfr" =>
         /\ calls'[i].pc # "destroying"
         /\ (\E c \in DOMAIN clients' : c \notin DOMAIN clients /\ clients'[c].owner = i)
              => ~HasClient(calls'[i].sender)]_vars

(* C25: once the connection stored for a sender has emitted authenticated, *)
(* ready or auth_failure, getQRCode returns null for the sender.           *)
C25_NoQRCodeOncePaired ==
  \A s \in Senders :
    ( /\ HasClient(s)
      /\ clients[whatsappClients[s]].phase \in {"authenticated", "ready", "auth_failure"} )
    => getQRCode(s) = NULL

----------------------------------------------------------------------------
(* Properties of the request validation and of POST /init-whatsapp         *)
(* (SpecRoute, FairRoute)                                                  *)

(* C26: a send-invitations request without sender or without guests array, *)
(* and an init-whatsapp request without sender, are answered with 400 in   *)
(* the step they arrive in: no call is made, no Client is constructed and  *)
(* the store is as before.                                                 *)
C26_BadRequestsDoNoSessionWork ==
  [][/\ ( /\ batch.pc = "idle" /\ batch'.pc # "idle"
          /\ (batch'.sender = NULL \/ ~batch'.isArray) )
        => /\ batch'.pc = "responded" /\ batch'.response.status = 400
           /\ StoreUnchanged /\ calls' = calls /\ sessionDir' = sessionDir
     /\ ( /\ request.pc = "idle" /\ request'.op = "init-whatsapp"
          /\ request'.sender = NULL )
        => /\ request'.pc = "responded" /\ request'.response.status = 400
           /\ StoreUnchanged /\ calls' = calls /\ sessionDir' = sessionDir]_vars

(* both routes have rejected a request while a session was open *)
C26_Witness ==
  /\ batch.pc = "responded" /\ batch.sender = "A" /\ ~batch.isArray
  /\ batch.response.status = 400
  /\ request.op = "init-whatsapp" /\ request.sender = NULL
  /\ request.response.status = 400
  /\ HasClient("A") /\ Len(calls) = 1 /\ Len(clients) = 1

----------------------------------------------------------------------------
(* Properties of two senders served at once (SpecPair) *)

(* what the store holds for sender s: handle, ready flag, pairing code *)
EntryOf(wc, cs, sh, s) ==
  [handle |-> wc[s], hasStatus |-> cs[s] # 0,
   ready |-> IF cs[s] # 0 THEN sh[cs[s]].isReady ELSE FALSE,
   qrCode |-> IF cs[s] # 0 THEN sh[cs[s]].qrCode ELSE NULL]

(* the senders whose call, connection or sweep visit takes the step; a qr  *)
(* event may leave its connection as it was                                *)
Actors ==
  {clients[c].sender :
     c \in {d \in DOMAIN clients : \E qr \in QRCodes : qrHandler(d, qr)}}
  \cup
  {calls'[i].sender :
     i \in {j \in DOMAIN calls' : j \notin DOMAIN calls \/ calls'[j] # calls[j]}}
  \cup {clients'[c].sender :
     c \in {d \in DOMAIN clients' : d \notin DOMAIN clients \/ clients'[d] # clients[d]}}
  \cup (IF sweep.pc = "destroying" /\ sweep'.pc # "destroying"
        THEN {sweep.sender} ELSE {})

(* C27: a step taken for one sender (a call, a connection event, a visit   *)
(* of the sweep) leaves handle, ready flag and pairing code of every other *)
(* sender as they are, and the handle stored for a sender is a connection  *)
(* of that sender, so none is stored under two senders.                    *)
C27_SendersAreIndependent ==
  /\ [](\A a, b \in Senders :
          HasClient(a) => /\ clients[whatsappClients[a]].sender = a
                          /\ (a # b => whatsappClients[a] # whatsappClients[b]))
  /\ [][/\ Cardinality(Actors) <= 1
        /\ \A b \in Senders :
             EntryOf(whatsappClients', clientStatus', statusHeap', b)
               # EntryOf(whatsappClients, clientStatus, statusHeap, b)
             => b \in Actors]_vars

(* B is ready while A shows a pairing code, and a sweep has visited both   *)
C27_Witness ==
  /\ HasClient("A") /\ HasClient("B")
  /\ getStatus("B").ready
  /\ getQRCode("A") # NULL
  /\ sweep.pc = "scan" /\ sweep.visited = Senders

(* C28: when destroy() rejects, the re-open path still deletes the entry   *)
(* and constructs the next Client, clear-session still answers with        *)
(* success, and the sweep still deletes both entries of the sender, counts *)
(* it and goes on with the senders it has not visited; it returns only     *)
(* when every stored sender has been visited.                              *)
C28_DestroyErrorsSwallowed ==
  [][/\ \A i \in DOMAIN calls :
          ( /\ calls[i].pc = "destroying" /\ calls'[i].pc # "destroying"
            /\ calls'[i].destroyErr # NULL )
          => IF calls[i].kind = "clear"
             THEN calls'[i].pc = "done"
             ELSE /\ calls'[i].pc = "pending"
                  /\ Len(clients') = Len(clients) + 1
                  /\ clients'[Len(clients')].owner = i
                  /\ whatsappClients'[calls[i].sender] = Len(clients')
     /\ ( /\ sweep.pc = "destroying" /\ sweep'.pc # "destroying"
          /\ sweep'.destroyErr # NULL )
        => /\ whatsappClients'[sweep.sender] = 0
           /\ clientStatus'[sweep.sender] = 0
           /\ sweep'.pc = "scan"
           /\ sweep'.cleaned = sweep.cleaned + 1
           /\ sweep'.visited = sweep.visited
     /\ (sweep.pc = "scan" /\ sweep'.pc = "idle")
        => \A s \in Senders : HasClient(s) => s \in sweep.visited]_vars

(* destroy() has rejected in the sweep, which has removed the entries of   *)
(* that sender and visited the other sender, whose session it keeps        *)
C28_Witness ==
  /\ sweep.pc = "scan" /\ sweep.destroyErr # NULL
  /\ sweep.cleaned = 1 /\ sweep.visited = Senders
  /\ ~HasClient(sweep.sender)
  /\ \E s \in Senders : HasClient(s)

----------------------------------------------------------------------------
(* The example request of the specification (SpecBatch) *)

Dana == [name |-> "Dana", phone |-> "0501234567", isNull |-> FALSE]

(* C29: the request with the guest list [Dana, 0501234567], every send of  *)
(* which the transport accepts, sends to chat id 972501234567@c.us, has    *)
(* one entry in details, a successful one, and is answered with total = 1, *)
(* successful = 1, failed = 0.                                             *)
C29_DanaIsSentOneInvitation ==
  ( /\ batch.pc = "responded"
    /\ batch.guests = <<Dana>>
    /\ batch.sent # << >>
    /\ \A m \in DOMAIN batch.log : batch.log[m].outcome = "accepted" )
  => /\ batch.sent = << <<"9", "7", "2", "5", "0", "1", "2", "3", "4", "5", "6", "7",
                          "@", "c", ".", "u", "s">> >>
     /\ Len(batch.details) = 1
     /\ batch.details[1] = [name |-> "Dana", phone |-> "0501234567",
                            success |-> TRUE, error |-> NULL]
     /\ batch.response = [status |-> 200, total |-> 1, successful |-> 1, failed |-> 0]

(* the request for Dana has been answered after an accepted send *)
C29_Witness ==
  /\ batch.pc = "responded"
  /\ batch.guests = <<Dana>>
  /\ batch.sender = "A"
  /\ Len(batch.sent) = 1
  /\ Len(batch.log) = 1 /\ batch.log[1].outcome = "accepted"

----------------------------------------------------------------------------
(* Termination of POST /init-whatsapp (FairRoute) *)

Polling == request.op = "init-whatsapp" /\ request.pc \in {"sleep", "race"}

(* the Client the request's initializeWhatsApp call constructed, if any *)
RequestClient ==
  IF request.call # 0 /\ calls[request.call].pc # "destroying"
  THEN calls[request.call].client ELSE 0

(* a code is stored, the status is ready, the promise is rejected, or the  *)
(* connection of the request is disconnected                               *)
Decided ==
  \/ getQRCode(request.sender) # NULL
  \/ getStatus(request.sender).ready
  \/ initError(request)
  \/ RequestClient # 0 /\ clients[RequestClient].phase = "disconnected"

(* C30: an init-whatsapp request that polls is answered once a pairing     *)
(* code is issued, the connection is ready, the initialization is rejected *)
(* or the connection is disconnected.                                      *)
C30_InitWhatsappResponds ==
  (Polling /\ Decided) ~> (request.pc = "responded")

----------------------------------------------------------------------------
(* Properties of GET /whatsapp-status/:sender (SpecRead) *)

StatusRouteStep == request' # request /\ request'.op = "whatsapp-status"

(* C31: a whatsapp-status request, however many came before it, constructs *)
(* and destroys no Client and leaves the store, the calls and the session  *)
(* directories as they are; it answers ready = true with a null code when  *)
(* the stored client has its info, whatever the stored flag, and else what *)
(* the store holds.                                                        *)
C31_StatusRouteOnlyReads ==
  [][StatusRouteStep =>
       LET s == request'.sender
           c == whatsappClients[s]
       IN /\ StoreUnchanged
          /\ calls' = calls
          /\ sessionDir' = sessionDir
          /\ request'.pc = "returned"
          /\ IF c # 0 /\ clients[c].info
             THEN request'.response.ready /\ request'.response.qrCode = NULL
             ELSE /\ request'.response.ready = (HasStatus(s) /\ StatusOf(s).isReady)
                  /\ request'.response.qrCode =
                       IF HasStatus(s) THEN StatusOf(s).qrCode ELSE NULL]_vars

(* the route has answered ready with a null code while the stored status   *)
(* is not ready and still holds the pairing code                           *)
C31_Witness ==
  /\ request.op = "whatsapp-status"
  /\ request.response.ready /\ request.response.qrCode = NULL
  /\ HasStatus(request.sender)
  /\ ~StatusOf(request.sender).isReady
  /\ StatusOf(request.sender).qrCode # NULL
  /\ clients[whatsappClients[request.sender]].info

----------------------------------------------------------------------------
(* The number of initialize() invocations of one open (SpecInit) *)

(* initialize() has been invoked once per retry, and once to begin with *)
Invocations(c) == clients[c].retryCount + 1

(* C32: initialize() is invoked again only after a file-locking or a       *)
(* protocol error; it is invoked at most 5 times, and at most 4 times when *)
(* every error was a protocol error; the promise is rejected exactly by    *)
(* the error of another class and by the error that comes at the limit,    *)
(* and that error is the one kept as the rejection.                        *)
C32_InitializeInvocationsBounded ==
  \A c \in DOMAIN clients :
    LET cl == clients[c]
        errs == cl.initErrs
        n == Invocations(c)
    IN /\ n <= 5
       /\ (errs # << >> /\ \A k \in DOMAIN errs : errs[k] \in {"protocol", "ebusy_protocol"})
            => n <= 4
       /\ Len(errs) = IF cl.initPc = "active" THEN n - 1 ELSE n
       /\ \A k \in 1..(n - 1) : errs[k] \in {"ebusy", "protocol", "ebusy_protocol"}
       /\ cl.initPc = "backoff" => errs[n] \in {"ebusy", "protocol", "ebusy_protocol"}
       /\ cl.initPc = "rejected" <=>
            /\ Len(errs) = n
            /\ \/ errs[n] = "other"
               \/ errs[n] \in {"protocol", "ebusy_protocol"} /\ n >= 4
               \/ errs[n] = "ebusy" /\ n = 5
       /\ cl.initPc = "rejected" =>
            /\ cl.initErr = errs[n]
            /\ calls[cl.owner].pc \in {"rejected", "failed"}

(* four file-locking errors were retried and the fifth invocation failed   *)
(* with a protocol error, which rejected the promise                       *)
C32_Witness ==
  \E c \in DOMAIN clients :
    /\ clients[c].initPc = "rejected"
    /\ Invocations(c) = 5
    /\ clients[c].initErrs = <<"ebusy", "ebusy", "ebusy", "ebusy", "protocol">>
    /\ calls[clients[c].owner].pc = "rejected"

----------------------------------------------------------------------------
(* The session a bulk call sends through (SpecBulk) *)

(* C33: every waitForReady of a sendBulkInvitations call, the one at its   *)
(* start and the one of every guest's send, is for the same sender.        *)
C33_BulkUsesOneSession ==
  \A m \in DOMAIN batch.awaited : batch.awaited[m] = batch.awaited[1]

----------------------------------------------------------------------------
(* One sendWhatsAppInvitation call (SpecSend) *)

(* the attempt of log entry m got a message id from sendMessage *)
GotMessageId(m) == batch.log[m].ver # NULL

(* C34: an attempt in which sendMessage returned a message id is the last  *)
(* attempt for its guest and the only one with a message id, and it ends   *)
(* with success = true, whatever the registration check and the            *)
(* verification gave or threw; while the verification is under way no      *)
(* earlier attempt for the guest has a message id.                         *)
C34_AtMostOneAcceptedSend ==
  /\ \A m \in DOMAIN batch.log :
       GotMessageId(m) =>
         /\ batch.log[m].outcome = "accepted"
         /\ \A n \in DOMAIN batch.log :
              (n # m /\ batch.log[n].guest = batch.log[m].guest) =>
                 n < m /\ ~GotMessageId(n)
         /\ Len(batch.details) >= batch.log[m].guest
         /\ batch.details[batch.log[m].guest].success
  /\ batch.pc = "verifying" =>
       \A n \in DOMAIN batch.log : batch.log[n].guest = batch.i => ~GotMessageId(n)

(* after a transient failure the second attempt was accepted while both    *)
(* the registration check and the verification threw, and the request was  *)
(* answered with one success                                               *)
C34_Witness ==
  /\ batch.pc = "responded"
  /\ Len(batch.log) = 2
  /\ batch.log[1].outcome = "transient"
  /\ batch.log[2].reg = "throws" /\ batch.log[2].ver = "throws"
  /\ batch.log[2].outcome = "accepted"
  /\ batch.response = [status |-> 200, total |-> 1, successful |-> 1, failed |-> 0]

----------------------------------------------------------------------------
(* The sweep and a later open of the same sender (Spec) *)

(* C35: the step of cleanupInactiveClients that follows the destroy() it   *)
(* awaited leaves the whatsappClients entry of the sender in place when    *)
(* that entry holds a live connection (one installed while the sweep was   *)
(* suspended).                                                             *)
C35_SweepKeepsNewConnection ==
  [][(sweep.pc = "destroying" /\ sweep'.pc = "scan"
        /\ whatsappClients[sweep.sender] # 0
        /\ Live(whatsappClients[sweep.sender]))
       => whatsappClients'[sweep.sender] = whatsappClients[sweep.sender]]_vars

----------------------------------------------------------------------------
(* Notifications of a replaced connection (Spec) *)

(* connection c is no longer the one stored for its sender: a later open   *)
(* stored another one                                                      *)
Replaced(c) ==
  /\ whatsappClients[clients[c].sender] # 0
  /\ whatsappClients[clients[c].sender] > c

(* the handle and the status stored for sender s stay as they are *)
StoredUnchanged(s) ==
  /\ whatsappClients'[s] = whatsappClients[s]
  /\ clientStatus'[s] = clientStatus[s]
  /\ clientStatus[s] # 0 => statusHeap'[clientStatus[s]] = statusHeap[clientStatus[s]]

(* C36: a qr, ready or disconnected handler of a replaced connection       *)
(* leaves the handle and the status stored for the replacement unchanged.  *)
C36_StaleEventsChangeNothing ==
  [][\A c \in DOMAIN clients :
       (/\ Replaced(c)
        /\ \/ \E qr \in QRCodes : qrHandler(c, qr)
           \/ readyHandler(c)
           \/ disconnectedHandler(c))
       => StoredUnchanged(clients[c].sender)]_vars

----------------------------------------------------------------------------
(* The moment an initializeWhatsApp promise resolves (Spec) *)

(* call i of initializeWhatsApp resolves with a handle in this step *)
ResolvesNow(i) ==
  /\ calls'[i].kind = "init"
  /\ calls'[i].pc = "resolved"
  /\ (i \in DOMAIN calls => calls[i].pc # "resolved")

(* C37: in the step in which a promise of initializeWhatsApp resolves with *)
(* a handle, getStatus of its sender reports ready = true.                 *)
C37_ResolvedMeansReportedReady ==
  [][\A i \in DOMAIN calls', s \in Senders :
       (ResolvesNow(i) /\ calls'[i].sender = s) => getStatus(s)'.ready]_vars

----------------------------------------------------------------------------
(* The counters of a send-batch call (SpecTally) *)

(* the call has returned its aggregated result: the route answered 200, or *)
(* sendBulkInvitations returned                                            *)
BatchReturned ==
  \/ batch.pc = "responded" /\ batch.response.status = 200
  \/ batch.pc = "bulkReturned"

Successes(details) == {k \in DOMAIN details : details[k].success}

(* C38: at every step of a send-batch call successful + failed is the      *)
(* number of detail entries (successful counting the entries with success  *)
(* = true) and is at most total, the length of the guest list; when the    *)
(* call returns, successful + failed, total, the number of guests and the  *)
(* number of detail entries are all equal.                                 *)
C38_CountersMatchDetails ==
  /\ batch.successful + batch.failed = Len(batch.details)
  /\ batch.successful = Cardinality(Successes(batch.details))
  /\ Len(batch.details) <= Len(batch.guests)
  /\ BatchReturned => Len(batch.details) = Len(batch.guests)
  /\ (batch.pc = "responded" /\ batch.response.status = 200) =>
       /\ batch.response.total = Len(batch.guests)
       /\ batch.response.successful + batch.response.failed = batch.response.total
       /\ batch.response.successful = batch.successful

(* a request of two guests has been answered: the first was recorded by    *)
(* the catch block of the loop, the second was sent                        *)
C38_Witness ==
  /\ batch.pc = "responded"
  /\ batch.response = [status |-> 200, total |-> 2, successful |-> 1, failed |-> 1]
  /\ batch.details[1].error = "URIError"
  /\ batch.details[2].success

----------------------------------------------------------------------------
(* Termination of a send-batch request (FairSend) *)

(* C39: a send-invitations request whose first wait for the session has    *)
(* returned is eventually answered, also when the connection is lost       *)
(* while the guests are being served.                                      *)
C39_BatchEventuallyAnswered ==
  batch.ready ~> (batch.pc = "responded")

====
